---- MODULE Spec2Model ----
(***************************************************************************)
(* Model of the multi-LLM extraction pipeline of 02_extraction.py: the     *)
(* coordinator main, one scheduler process_with_llm per enabled provider,  *)
(* one task process_single_row per input row, the provider's output        *)
(* directory and the summary documents.                                    *)
(*                                                                         *)
(* Strings are tuples of one-character strings, so that building a file    *)
(* name and reading a record id back out of it are computed, not assumed.  *)
(* A step of the model is what asyncio runs between two suspension points: *)
(* a task runs from the semaphore to `await client.process`, and from the  *)
(* response to its return, without any other task running in between.      *)
(***************************************************************************)
EXTENDS Integers, Sequences, FiniteSets, TLC

\* ------------------------------------------------------------ bounds

\* Permits of one provider's semaphore. The source sets 15 (02_extraction.py:39);
\* the model keeps it below NumRows so that rows have to wait for a permit.
BATCH_SIZE == 2

\* Rows of the input table df in the scheduler specification.
NumRows == 3

\* Rows of the input table df in the two-provider specifications.
MultiRows == 2

\* Rows of the input table df in the specification of consecutive runs.
RerunRows == 2

\* Consecutive runs of the program over the same output directories.
MaxRuns == 2

\* ------------------------------------------------------------ strings

\* Python values that may or may not be a str or an int carry their type.
None == <<"NoneType">>
NaN == <<"float">>

\* What a lookup finds under a key or a column that is not there.
Missing == <<"missing">>
StrVal(s) == <<"str", s>>
IntVal(n) == <<"int", n>>

HexDigits == <<"a", "b", "c", "d", "e", "f", "0", "1", "2", "3", "4", "5", "6", "7", "8", "9">>

\* isinstance(x, str)
IsStr(x) == x[1] = "str"

\* str.replace(old, new) for one-character old and new.
Replace(s, old, new) == [i \in 1..Len(s) |-> IF s[i] = old THEN new ELSE s[i]]

\* str.endswith(suffix)
EndsWith(s, suffix) ==
    /\ Len(s) >= Len(suffix)
    /\ SubSeq(s, Len(s) - Len(suffix) + 1, Len(s)) = suffix

\* str.split(sep)[0]: the text before the first sep, the whole text without one.
SplitFirst(s, sep) ==
    LET hits == {i \in 1..Len(s) : s[i] = sep}
    IN  IF hits = {} THEN s
        ELSE SubSeq(s, 1, (CHOOSE i \in hits : \A j \in hits : i <= j) - 1)

TxtExt == <<".", "t", "x", "t">>
JsonExt == <<".", "j", "s", "o", "n">>
SummaryPrefix == <<"s", "u", "m", "m", "a", "r", "y", "_">>

\* ------------------------------------------------------------ variables

VARIABLES
    run,         \* which run of the program this is, 1..MaxRuns
    day,         \* index in Timestamps of this run's timestamp
    csv,         \* INPUT_CSV: text_content by index label
    df,          \* the sample of this run: its index labels, in task order
    enabled,     \* the providers whose MODELS entry has "enabled": True
    clientType,  \* MODELS[p]["client_type"]
    dir,         \* the file system: output directory -> (file name -> content)
    mpc,         \* main: "run", "done" (combined summary written), "failed" (its write raised)
    combined,    \* the combined summary document: llm_type -> summary
    ppc,         \* process_with_llm(p): "start", "gather", "done", "failed"
    existing,    \* existing_files of process_with_llm(p)
    sem,         \* free permits of the provider's semaphore
    tpc,         \* process_single_row(p, i): "wait", "call", "done"
    outcome,     \* what task (p, i) returned
    summary,     \* what process_with_llm(p) returned
    calls,       \* client.process calls issued for (p, i) in this run
    reply,       \* how the client.process call of (p, i) settled
    before,      \* dir as this run found it
    prev,        \* how the previous run ended ("run": interrupted): its mpc, and per row
                 \* "call" for a call in flight or else the status of the outcome
    ppos,        \* 03_parse.py: "off", "load", "loaded", "attached", "joined", "crashed"
    perr,        \* the exception that ended 03_parse.py, "" if none
    docs,        \* how the text of each output document was made
    loaded,      \* the files load_folder's loop has been through
    frames,      \* all_incidents, ..., all_harms: one entry per parsed file
    failed,      \* load_folder's failed list
    uuids,       \* the number of identities uuid.uuid4 has drawn
    filtered,    \* the rows of filtered_texts.csv: file_id, document_id, case_id
    tables,      \* incidents, plaintiffs, defendants, harms
    joined       \* harms_with_plaintiffs, harms_with_defendants

\* ------------------------------------------------------------ configuration

\* MODELS: two of its five entries, one whose model name has no path separator
\* and one whose model name has one.
Providers == {"openai", "llama"}

ProviderOrder == <<"openai", "llama">>

\* A model name the provider was configured with before the current one.
EarlierModelName == <<"g", "p", "t", "-", "4", "o">>

ModelName(p) ==
    IF p = "openai"
    THEN <<"g", "p", "t", "-", "4", "o", "-", "m", "i", "n", "i">>
    ELSE <<"m", "e", "t", "a", "-", "l", "l", "a", "m", "a", "/", "L", "l", "a", "m", "a">>

\* MODELS[llm_type]["client_type"] as the source configures it.
ConfiguredClientType(p) == p

\* The client types get_client has a constructor for.
KnownClientTypes == {"openai", "anthropic", "google", "llama", "deepseek"}

\* BASE_OUTPUT_DIR
BASE_OUTPUT_DIR == <<"d", "a", "t", "a", "/">>

\* The characters of an llm_type, the constant a client class hands to
\* LLMClient.__init__: "openai" for OpenAIClient, "llama" for LlamaClient (the
\* classes ClaudeClient, GeminiClient and DeepseekClient are left out).
LlmTypeText(llm_type) ==
    CASE llm_type = "openai" -> <<"o", "p", "e", "n", "a", "i">>
      [] llm_type = "llama" -> <<"l", "l", "a", "m", "a">>

\* LLMClient.__init__: os.path.join(BASE_OUTPUT_DIR, f"{llm_type}_extracted_text")
ClientDir(llm_type) ==
    BASE_OUTPUT_DIR \o LlmTypeText(llm_type)
        \o <<"_", "e", "x", "t", "r", "a", "c", "t", "e", "d", "_", "t", "e", "x", "t">>

\* client.llm_type of the client get_client constructs for the provider p: the
\* constant of the class that MODELS[p]["client_type"] selects, which for
\* OpenAIClient and LlamaClient is the client type's own name. It is the
\* provider's name only while the configuration gives every provider the
\* client type of its name.
LlmType(p) == clientType[p]

\* client.output_dir of the provider p.
OutputDir(p) == ClientDir(LlmType(p))

\* The output directories of the client classes.
OutputDirs == {ClientDir(llm_type) : llm_type \in {"openai", "llama"}}

\* datetime.now().strftime("%Y%m%d") on two consecutive days.
Timestamps == << <<"2", "0", "2", "6", "0", "2", "2", "0">>,
                 <<"2", "0", "2", "6", "0", "2", "2", "1">> >>

\* ------------------------------------------------------------ input rows

\* The file_id of row i: hexadecimal, as get_file_id of 03_parse.py expects
\* (32 digits there, two here), distinct for distinct rows.
RowId(i) == <<HexDigits[(i % 16) + 1], HexDigits[((i \div 16) % 16) + 1]>>

\* text_content of a row: a complaint text, the empty string, or missing (NaN).
\* (A table read from a file without the column has Missing in every row.)
Complaint == <<"c">>
Contents == {StrVal(Complaint), StrVal(<<>>), NaN}

\* The tables INPUT_CSV may hold, n records long.
Tables(n) == [1..n -> Contents]

\* read_csv(INPUT_CSV).sample(n): n distinct rows of the table, in any order.
Sample(table, n) ==
    {s \in [1..n -> DOMAIN table] : \A a, b \in 1..n : a # b => s[a] # s[b]}

\* ------------------------------------------------------------ provider replies

ReplyText == <<"{", "}">>

NoReply == [kind |-> "none"]
Raise == [kind |-> "raise"]
Reply(c, k) == [kind |-> "return", content |-> c, tokens |-> k]

\* What client.process does in the scheduler specifications: it raises, or returns
\* a text, or returns no text (message.content is None).
Responses == {Raise, Reply(StrVal(ReplyText), IntVal(120)), Reply(None, IntVal(120))}

\* Elapsed seconds of a request in the scheduler specifications.
Times == {1}

\* The wider replies and durations of the telemetry specification.
TelemetryResponses ==
    {Raise, Reply(StrVal(ReplyText), IntVal(120)), Reply(StrVal(ReplyText), IntVal(7)),
     Reply(StrVal(ReplyText), None), Reply(None, IntVal(120))}

TelemetryTimes == {1, 2, 4}

\* ------------------------------------------------------------ files

\* A directory is a function from file names to file contents.
EmptyDir == [n \in {} |-> <<>>]

\* os.listdir
ListDir(d) == DOMAIN d

\* open(path, "w"): the file exists and is empty from here on.
OpenForWrite(d, path) == [n \in DOMAIN d \cup {path} |-> IF n = path THEN <<>> ELSE d[n]]

\* f.write(text) on the open file.
WriteText(d, path, text) == [d EXCEPT ![path] = text[2]]

\* with open(save_path, "w") as f: f.write(output_text). open may raise
\* OSError ("unopened": no file). f.write raises TypeError for an output_text
\* that is not a str, after open has created the file. The write of a str may
\* raise OSError with nothing written ("empty") or with a first piece of the
\* text written ("fragment").
SaveOutput(d, path, text, written) ==
    LET opened == OpenForWrite(d, path)
    IN  IF written = "unopened" THEN [dir |-> d, raised |-> TRUE, error |-> "OSError"]
        ELSE IF ~IsStr(text) THEN [dir |-> opened, raised |-> TRUE, error |-> "TypeError"]
        ELSE IF written = "empty" THEN [dir |-> opened, raised |-> TRUE, error |-> "OSError"]
        ELSE IF written = "fragment"
             THEN [dir |-> WriteText(opened, path, StrVal(SubSeq(text[2], 1, 1))),
                   raised |-> TRUE, error |-> "OSError"]
        ELSE [dir |-> WriteText(opened, path, text), raised |-> FALSE, error |-> ""]

\* f"{file_id}_{client.model_name.replace('/', '-')}_{timestamp}.txt"
FileName(file_id, model_name, ts) ==
    file_id \o <<"_">> \o Replace(model_name, "/", "-") \o <<"_">> \o ts \o TxtExt

\* f"summary_{timestamp}.json"
SummaryName(ts) == SummaryPrefix \o ts \o JsonExt

\* get_existing_files that looks at the summary documents instead of the outputs.
GetExistingFilesJson(d) ==
    {SplitFirst(fname, "_") : fname \in {f \in ListDir(d) : EndsWith(f, JsonExt)}}

\* get_existing_files that splits the file name at the wrong separator.
GetExistingFilesDash(d) ==
    {SplitFirst(fname, "-") : fname \in {f \in ListDir(d) : EndsWith(f, TxtExt)}}

\* LLMClient.get_existing_files: the first "_"-separated part of every .txt name.
GetExistingFiles(d) ==
    {SplitFirst(fname, "_") : fname \in {f \in ListDir(d) : EndsWith(f, TxtExt)}}

\* ------------------------------------------------------------ outcomes

NoOutcome == [status |-> "none"]

SkippedOutcome(file_id, p, reason) ==
    [status |-> "skipped", file_id |-> file_id, llm_type |-> LlmType(p), reason |-> reason]

SuccessOutcome(file_id, p, elapsed, tokens) ==
    [status |-> "success", file_id |-> file_id, llm_type |-> LlmType(p), model |-> ModelName(p),
     time |-> elapsed, tokens |-> tokens]

\* The exception a task ended in, as asyncio.gather(return_exceptions=True)
\* hands it over in place of a result.
ExceptionOutcome(error) == [status |-> "raised", error |-> error]

ErrorOutcome(file_id, p, elapsed, error) ==
    [status |-> "error", file_id |-> file_id, llm_type |-> LlmType(p), model |-> ModelName(p),
     error |-> error, time |-> elapsed]

\* The try block of process_single_row once client.process has settled: the
\* directory it leaves and the outcome it returns.
ProcessReply(d, p, file_id, ts, resp, elapsed, written) ==
    IF resp.kind = "raise"
    THEN [dir |-> d, outcome |-> ErrorOutcome(file_id, p, elapsed, "ProviderError")]
    ELSE LET saved == SaveOutput(d, FileName(file_id, ModelName(p), ts), resp.content, written)
         IN  IF saved.raised
             THEN [dir |-> saved.dir, outcome |-> ErrorOutcome(file_id, p, elapsed, saved.error)]
             ELSE [dir |-> saved.dir,
                   outcome |-> SuccessOutcome(file_id, p, elapsed, resp.tokens)]

\* ------------------------------------------------------------ summaries

RECURSIVE SumOver(_, _, _)
\* sum(f(r) for r in results if r["status"] == st), f given as a field choice.
SumOver(results, st, field) ==
    IF results = <<>> THEN 0
    ELSE LET r == Head(results)
             v == IF r.status # st THEN 0
                  ELSE IF field = "one" THEN 1
                  ELSE IF field = "time" THEN r.time
                  ELSE IF r.tokens = None THEN 0 ELSE r.tokens[2]
         IN  v + SumOver(Tail(results), st, field)

RECURSIVE Gcd(_, _)
Gcd(a, b) == IF b = 0 THEN a ELSE Gcd(b, a % b)

\* a / b as a fraction in lowest terms.
Ratio(a, b) == [num |-> a \div Gcd(a, b), den |-> b \div Gcd(a, b)]

Zero == [num |-> 0, den |-> 1]

CountStatus(results, st) == SumOver(results, st, "one")

\* An average taken over every outcome that has a time, errors included.
AvgTimeAll(results) ==
    LET n == CountStatus(results, "success") + CountStatus(results, "error")
    IN  IF n = 0 THEN Zero
        ELSE Ratio(SumOver(results, "success", "time") + SumOver(results, "error", "time"), n)

\* sum(success_times) / len(success_times) if success_times else 0
AvgTime(results) ==
    IF CountStatus(results, "success") = 0 THEN Zero
    ELSE Ratio(SumOver(results, "success", "time"), CountStatus(results, "success"))

\* sum(r.get("tokens", 0) or 0 for r in results if r.get("status") == "success")
TotalTokens(results) == SumOver(results, "success", "tokens")

\* The summary dict of process_with_llm (total_runtime left out: wall-clock time).
Summary(p, ts, results) ==
    [llm_type |-> p, model_name |-> ModelName(p), timestamp |-> ts,
     success_count |-> CountStatus(results, "success"),
     error_count |-> CountStatus(results, "error"),
     skipped_count |-> CountStatus(results, "skipped"),
     avg_time_per_request |-> AvgTime(results),
     total_tokens |-> TotalTokens(results),
     results |-> results]

\* get_client: the client constructed for a known client type, None otherwise.
GetClient(client_type) == IF client_type \in KnownClientTypes THEN <<"client">> ELSE None

\* process_with_llm returned None.
NoSummary == [llm_type |-> "None"]

\* A coordinator that gives up on the combined summary when a provider failed.
AllSummariesAbort(list, acc) ==
    IF \E k \in 1..Len(list) : list[k] = NoSummary THEN acc
    ELSE [t \in {list[k].llm_type : k \in 1..Len(list)} |->
             CHOOSE x \in {list[k] : k \in 1..Len(list)} : x.llm_type = t]

RECURSIVE AllSummaries(_, _)
\* main's loop over all_summaries_list: keyed by llm_type, None results left out.
AllSummaries(list, acc) ==
    IF list = <<>> THEN acc
    ELSE LET s == Head(list)
         IN  IF s = NoSummary THEN AllSummaries(Tail(list), acc)
             ELSE AllSummaries(Tail(list),
                     [k \in DOMAIN acc \cup {s.llm_type} |->
                         IF k = s.llm_type THEN s ELSE acc[k]])

\* ------------------------------------------------------------ state

\* The state of 02_extraction.py and the state of 03_parse.py.
runVars == <<run, day, csv, df, enabled, clientType, mpc, combined, ppc, existing,
             sem, tpc, outcome, summary, calls, reply, before, prev>>

parseVars == <<ppos, perr, docs, loaded, frames, failed, uuids, filtered, tables, joined>>

vars == <<run, day, csv, df, enabled, clientType, dir, mpc, combined, ppc, existing,
          sem, tpc, outcome, summary, calls, reply, before, prev,
          ppos, perr, docs, loaded, frames, failed, uuids, filtered, tables, joined>>

\* The index labels of the rows of df.
Rows == {df[k] : k \in DOMAIN df}

timestamp == Timestamps[day]

EmptyMap == [k \in {} |-> NoSummary]

\* The state of a process that has just started, over the rows `rows`.
Fresh(rows) ==
    [mpc |-> "run",
     combined |-> EmptyMap,
     ppc |-> [p \in Providers |-> "start"],
     existing |-> [p \in Providers |-> {}],
     sem |-> [p \in Providers |-> 0],
     tpc |-> [p \in Providers |-> [i \in rows |-> "wait"]],
     outcome |-> [p \in Providers |-> [i \in rows |-> NoOutcome]],
     summary |-> [p \in Providers |-> NoSummary],
     calls |-> [p \in Providers |-> [i \in rows |-> 0]],
     reply |-> [p \in Providers |-> [i \in rows |-> NoReply]]]

FirstRun ==
    /\ run = 1
    /\ day = 1
    /\ before = dir
    /\ mpc = Fresh(Rows).mpc
    /\ combined = Fresh(Rows).combined
    /\ ppc = Fresh(Rows).ppc
    /\ existing = Fresh(Rows).existing
    /\ sem = Fresh(Rows).sem
    /\ tpc = Fresh(Rows).tpc
    /\ outcome = Fresh(Rows).outcome
    /\ summary = Fresh(Rows).summary
    /\ calls = Fresh(Rows).calls
    /\ reply = Fresh(Rows).reply
    /\ prev = [mpc |-> "none", status |-> [p \in Providers |-> [i \in Rows |-> "none"]]]

\* The four row lists of extraction_to_tables.
NoTables == [incidents |-> <<>>, plaintiffs |-> <<>>, defendants |-> <<>>, harms |-> <<>>]

NoJoined == [harms_with_plaintiffs |-> <<>>, harms_with_defendants |-> <<>>]

\* 03_parse.py has not been started.
ParserOff ==
    /\ ppos = "off"
    /\ perr = ""
    /\ docs = <<>>
    /\ loaded = {}
    /\ frames = <<>>
    /\ failed = <<>>
    /\ uuids = 0
    /\ filtered = <<>>
    /\ tables = NoTables
    /\ joined = NoJoined

\* One enabled provider, as in the source's MODELS, and more rows than permits.
Init ==
    /\ csv \in Tables(NumRows)
    /\ df \in Sample(csv, NumRows)
    /\ enabled \in {{p} : p \in Providers}
    /\ clientType = [p \in Providers |-> ConfiguredClientType(p)]
    /\ dir = [o \in OutputDirs |-> EmptyDir]
    /\ FirstRun
    /\ ParserOff

\* ------------------------------------------------------------ process_single_row

\* A semaphore that hands out permits it does not have.
CanAcquireUnbounded(permits) == TRUE

\* asyncio.Semaphore: a permit can be taken while one is free.
CanAcquire(permits) == permits > 0

\* A task that looks at the text before it looks at the existing files.
RowDecisionEmptyFirst(file_id, complaint, existing_files) ==
    IF ~IsStr(complaint) \/ Len(complaint[2]) = 0 THEN "empty_text"
    ELSE IF file_id \in existing_files THEN "already_saved"
    ELSE "call"

\* What process_single_row does with a row once it holds a permit;
\* row["text_content"] raises KeyError when the table has no such column.
RowDecision(file_id, complaint, existing_files) ==
    IF file_id \in existing_files THEN "already_saved"
    ELSE IF complaint = Missing THEN "KeyError"
    ELSE IF ~IsStr(complaint) \/ Len(complaint[2]) = 0 THEN "empty_text"
    ELSE "call"

\* From `async with semaphore` to the first suspension, which no task reaches
\* before every process_with_llm has run up to its gather (main's gather
\* starts them first, and none suspends earlier): a skipped row returns
\* (and releases the permit) at once, and so does a row whose task raises
\* before its try block; any other row issues client.process.
EnterRow(p, i) ==
    /\ mpc = "run"
    /\ ppc[p] = "gather"
    /\ \A q \in enabled : ppc[q] # "start"
    /\ tpc[p][i] = "wait"
    /\ CanAcquire(sem[p])
    /\ LET decision == RowDecision(RowId(i), csv[i], existing[p])
       IN  IF decision = "call"
           THEN /\ tpc' = [tpc EXCEPT ![p][i] = "call"]
                /\ sem' = [sem EXCEPT ![p] = @ - 1]
                /\ calls' = [calls EXCEPT ![p][i] = @ + 1]
                /\ UNCHANGED outcome
           ELSE /\ tpc' = [tpc EXCEPT ![p][i] = "done"]
                /\ outcome' = [outcome EXCEPT ![p][i] =
                                   IF decision = "KeyError" THEN ExceptionOutcome(decision)
                                   ELSE SkippedOutcome(RowId(i), p, decision)]
                /\ UNCHANGED <<sem, calls>>
    /\ UNCHANGED <<run, day, csv, df, enabled, clientType, dir, mpc, combined, ppc, existing,
                   summary, reply, before, prev>>
    /\ UNCHANGED parseVars

\* A scheduler without task isolation: an exception of client.process is not
\* caught in the row's own task and cancels the provider's other tasks.
SettleCancelling(p, i, resp, elapsed, written) ==
    /\ mpc = "run"
    /\ tpc[p][i] = "call"
    /\ LET done == ProcessReply(dir[OutputDir(p)], p, RowId(i), timestamp, resp, elapsed, written)
           stop == resp.kind = "raise"
       IN  /\ dir' = [dir EXCEPT ![OutputDir(p)] = done.dir]
           /\ outcome' = [outcome EXCEPT ![p] =
                  [j \in Rows |->
                      IF j = i THEN done.outcome
                      ELSE IF stop /\ tpc[p][j] # "done"
                           THEN ErrorOutcome(RowId(j), p, elapsed, "CancelledError")
                           ELSE @[j]]]
           /\ tpc' = [tpc EXCEPT ![p] =
                  [j \in Rows |-> IF j = i \/ stop THEN "done" ELSE @[j]]]
           /\ sem' = [sem EXCEPT ![p] = IF stop THEN BATCH_SIZE ELSE @ + 1]
    /\ reply' = [reply EXCEPT ![p][i] = resp]
    /\ UNCHANGED <<run, day, csv, df, enabled, clientType, mpc, combined, ppc, existing,
                   summary, calls, before, prev>>
    /\ UNCHANGED parseVars

\* A task that puts a row whose call raised back in line for another call.
SettleRetrying(p, i, resp, elapsed, written) ==
    /\ mpc = "run"
    /\ tpc[p][i] = "call"
    /\ LET done == ProcessReply(dir[OutputDir(p)], p, RowId(i), timestamp, resp, elapsed, written)
       IN  /\ dir' = [dir EXCEPT ![OutputDir(p)] = done.dir]
           /\ outcome' = [outcome EXCEPT ![p][i] =
                              IF resp.kind = "raise" THEN @ ELSE done.outcome]
    /\ tpc' = [tpc EXCEPT ![p][i] = IF resp.kind = "raise" THEN "wait" ELSE "done"]
    /\ sem' = [sem EXCEPT ![p] = @ + 1]
    /\ reply' = [reply EXCEPT ![p][i] = resp]
    /\ UNCHANGED <<run, day, csv, df, enabled, clientType, mpc, combined, ppc, existing,
                   summary, calls, before, prev>>
    /\ UNCHANGED parseVars

\* A task that keeps its permit when it returns an error outcome.
SettleLeaking(p, i, resp, elapsed, written) ==
    /\ mpc = "run"
    /\ tpc[p][i] = "call"
    /\ LET done == ProcessReply(dir[OutputDir(p)], p, RowId(i), timestamp, resp, elapsed, written)
       IN  /\ dir' = [dir EXCEPT ![OutputDir(p)] = done.dir]
           /\ outcome' = [outcome EXCEPT ![p][i] = done.outcome]
           /\ sem' = [sem EXCEPT ![p] = IF done.outcome.status = "error" THEN @ ELSE @ + 1]
    /\ tpc' = [tpc EXCEPT ![p][i] = "done"]
    /\ reply' = [reply EXCEPT ![p][i] = resp]
    /\ UNCHANGED <<run, day, csv, df, enabled, clientType, mpc, combined, ppc, existing,
                   summary, calls, before, prev>>
    /\ UNCHANGED parseVars

\* client.process settles with resp after `elapsed` seconds; the task saves the
\* output or catches the exception, returns its outcome and releases the permit.
Settle(p, i, resp, elapsed, written) ==
    /\ mpc = "run"
    /\ tpc[p][i] = "call"
    /\ LET done == ProcessReply(dir[OutputDir(p)], p, RowId(i), timestamp, resp, elapsed, written)
       IN  /\ dir' = [dir EXCEPT ![OutputDir(p)] = done.dir]
           /\ outcome' = [outcome EXCEPT ![p][i] = done.outcome]
    /\ tpc' = [tpc EXCEPT ![p][i] = "done"]
    /\ sem' = [sem EXCEPT ![p] = @ + 1]
    /\ reply' = [reply EXCEPT ![p][i] = resp]
    /\ UNCHANGED <<run, day, csv, df, enabled, clientType, mpc, combined, ppc, existing,
                   summary, calls, before, prev>>
    /\ UNCHANGED parseVars

\* ------------------------------------------------------------ process_with_llm

\* process_with_llm up to asyncio.gather: the client is constructed (the
\* constructor may raise, get_client may return None), the existing files are
\* read and the tasks are created.
StartProvider(p, constructed) ==
    /\ mpc = "run"
    /\ p \in enabled
    /\ ppc[p] = "start"
    /\ IF constructed /\ GetClient(clientType[p]) # None
       THEN /\ ppc' = [ppc EXCEPT ![p] = "gather"]
            /\ existing' = [existing EXCEPT ![p] = GetExistingFiles(dir[OutputDir(p)])]
            /\ sem' = [sem EXCEPT ![p] = BATCH_SIZE]
       ELSE /\ ppc' = [ppc EXCEPT ![p] = "failed"]
            /\ UNCHANGED <<existing, sem>>
    /\ UNCHANGED <<run, day, csv, df, enabled, clientType, dir, mpc, combined, tpc, outcome,
                   summary, calls, reply, before, prev>>
    /\ UNCHANGED parseVars

\* A wait that returns at the first completed task.
GatheredFirst(p) == \E i \in Rows : tpc[p][i] = "done"

\* asyncio.gather(*tasks, return_exceptions=True) returns once every task has.
Gathered(p) == \A i \in Rows : tpc[p][i] = "done"

\* Results that leave out the tasks that ended in an exception.
ResultsDropRaised(p) ==
    SelectSeq([k \in DOMAIN df |-> outcome[p][df[k]]], LAMBDA r : r.status # "raised")

\* results: raw_results in task order, an exception replaced by an error
\* outcome that names the exception and the provider.
Results(p) ==
    [k \in DOMAIN df |->
        IF outcome[p][df[k]].status = "raised"
        THEN [status |-> "error", error |-> outcome[p][df[k]].error, llm_type |-> p]
        ELSE outcome[p][df[k]]]

SummaryJson == <<"{", "s", "}">>

\* process_with_llm after gather: the summary is computed and written. The
\* write may raise; the exception is caught and None returned. It raises
\* before the file is opened ("unopened"), or after open(summary_path, "w")
\* has made or emptied the file, json.dump having written nothing ("empty")
\* or a first piece of the text ("fragment").
Finish(p, written) ==
    /\ mpc = "run"
    /\ ppc[p] = "gather"
    /\ Gathered(p)
    /\ IF written = "written"
       THEN /\ summary' = [summary EXCEPT ![p] = Summary(p, timestamp, Results(p))]
            /\ dir' = [dir EXCEPT ![OutputDir(p)] =
                          WriteText(OpenForWrite(@, SummaryName(timestamp)),
                                    SummaryName(timestamp), StrVal(SummaryJson))]
            /\ ppc' = [ppc EXCEPT ![p] = "done"]
       ELSE /\ ppc' = [ppc EXCEPT ![p] = "failed"]
            /\ dir' = IF written = "unopened" THEN dir
                      ELSE IF written = "empty"
                           THEN [dir EXCEPT ![OutputDir(p)] =
                                    OpenForWrite(@, SummaryName(timestamp))]
                      ELSE [dir EXCEPT ![OutputDir(p)] =
                               WriteText(OpenForWrite(@, SummaryName(timestamp)),
                                         SummaryName(timestamp),
                                         StrVal(SubSeq(SummaryJson, 1, 1)))]
            /\ UNCHANGED summary
    /\ UNCHANGED <<run, day, csv, df, enabled, clientType, mpc, combined, existing, sem, tpc,
                   outcome, calls, reply, before, prev>>
    /\ UNCHANGED parseVars

\* ------------------------------------------------------------ main

\* A coordinator that waits for a summary from every enabled provider.
AllReturnedWithSummary == \A p \in enabled : ppc[p] = "done"

\* The outer asyncio.gather returns once every enabled provider's
\* process_with_llm has returned.
AllReturned == \A p \in enabled : ppc[p] \in {"done", "failed"}

\* all_summaries_list, in the order of MODELS.
SummariesList ==
    LET on == SelectSeq(ProviderOrder, LAMBDA p : p \in enabled)
    IN  [k \in 1..Len(on) |-> summary[on[k]]]

\* main after its gather: the combined summary is built and written. The
\* write is in no try block: when it raises, main ends with the exception,
\* the document missing or cut short.
Combine(written) ==
    /\ mpc = "run"
    /\ AllReturned
    /\ IF written
       THEN /\ combined' = AllSummaries(SummariesList, EmptyMap)
            /\ mpc' = "done"
       ELSE /\ mpc' = "failed"
            /\ UNCHANGED combined
    /\ UNCHANGED <<run, day, csv, df, enabled, clientType, dir, ppc, existing, sem, tpc,
                   outcome, summary, calls, reply, before, prev>>
    /\ UNCHANGED parseVars

\* The process has ended, or is interrupted where it stands (whatever is in
\* flight is lost), and the program is run again, the same day or a later one,
\* over a new sample of INPUT_CSV and the directories the earlier runs left.
\* The interruption may fall between an open(path, "w") and the write that
\* follows it: the file stays, empty. `cut` is <<>> for none, <<p, i>> for the
\* output file of a task in flight, <<p>> for the summary of a provider whose
\* tasks have all returned.
NewRun(d, sample, cut) ==
    /\ mpc \in {"done", "failed", "run"}
    /\ run < MaxRuns
    /\ d \in day..Len(Timestamps)
    /\ sample \in Sample(csv, Len(df))
    /\ \/ cut = <<>>
       \/ /\ mpc = "run"
          /\ cut \in Providers \X Rows
          /\ tpc[cut[1]][cut[2]] = "call"
       \/ /\ mpc = "run"
          /\ cut \in {<<p>> : p \in Providers}
          /\ ppc[cut[1]] = "gather"
          /\ Gathered(cut[1])
    /\ LET left == IF cut = <<>> THEN dir
                   ELSE [dir EXCEPT ![OutputDir(cut[1])] =
                            OpenForWrite(@, IF Len(cut) = 1 THEN SummaryName(timestamp)
                                            ELSE FileName(RowId(cut[2]), ModelName(cut[1]),
                                                          timestamp))]
           rows == {sample[k] : k \in DOMAIN sample}
       IN  /\ dir' = left
           /\ before' = left
           /\ df' = sample
           /\ mpc' = Fresh(rows).mpc
           /\ combined' = Fresh(rows).combined
           /\ ppc' = Fresh(rows).ppc
           /\ existing' = Fresh(rows).existing
           /\ sem' = Fresh(rows).sem
           /\ tpc' = Fresh(rows).tpc
           /\ outcome' = Fresh(rows).outcome
           /\ summary' = Fresh(rows).summary
           /\ calls' = Fresh(rows).calls
           /\ reply' = Fresh(rows).reply
    /\ UNCHANGED <<csv, enabled, clientType>>
    /\ run' = run + 1
    /\ day' = d
    /\ prev' = [mpc |-> mpc,
                status |-> [p \in Providers |-> [i \in Rows |->
                               IF tpc[p][i] = "call" THEN "call" ELSE outcome[p][i].status]]]
    /\ UNCHANGED parseVars

\* ------------------------------------------------------------ specifications

\* The steps of one run, client.process settling as R and T allow; every
\* output file and every summary is written whole, cut short, left empty or
\* not opened.
RunNext(R, T) ==
    \/ \E p \in Providers, constructed \in BOOLEAN : StartProvider(p, constructed)
    \/ \E p \in Providers, i \in Rows : EnterRow(p, i)
    \/ \E p \in Providers, i \in Rows, resp \in R, elapsed \in T,
          written \in {"written", "fragment", "empty", "unopened"} :
          Settle(p, i, resp, elapsed, written)
    \/ \E p \in Providers, written \in {"written", "fragment", "empty", "unopened"} :
          Finish(p, written)
    \/ \E written \in BOOLEAN : Combine(written)

\* One run of one provider's scheduler.
Next == RunNext(Responses, Times)

Spec == Init /\ [][Next]_vars

\* An output directory that holds row 1's output of an earlier run, written
\* when the provider was configured with its earlier model.
Leftover ==
    SaveOutput(EmptyDir, FileName(RowId(1), EarlierModelName, Timestamps[1]),
               StrVal(ReplyText), "written").dir

\* Consecutive runs of one provider's scheduler, interrupted or not, the first
\* over an empty output directory or over one an earlier configuration left.
\* INPUT_CSV has one record more than a sample, each with a text or without
\* one (NaN; the empty string takes the same branch of process_single_row).
\* The first sample is in the table's order, every such table being drawn;
\* each later run draws any sample.
InitRerun ==
    /\ csv \in [1..(RerunRows + 1) -> {StrVal(Complaint), NaN}]
    /\ df = [k \in 1..RerunRows |-> k]
    /\ enabled = {"openai"}
    /\ clientType = [p \in Providers |-> ConfiguredClientType(p)]
    /\ dir \in {[o \in OutputDirs |-> EmptyDir],
                [o \in OutputDirs |-> IF o = ClientDir("openai") THEN Leftover ELSE EmptyDir]}
    /\ FirstRun
    /\ ParserOff

NextRerun ==
    \/ RunNext(Responses, Times)
    \/ \E d \in 1..Len(Timestamps), sample \in Sample(csv, RerunRows),
          cut \in {<<>>} \cup (Providers \X DOMAIN csv) \cup {<<p>> : p \in Providers} :
              NewRun(d, sample, cut)

SpecRerun == InitRerun /\ [][NextRerun]_vars

\* One run of main over any set of enabled providers, each configured with
\* its own client type or with one get_client does not know, llama also with
\* the client type of openai (both then get the same class). The sample is in
\* the table's order: every table of MultiRows records is drawn, so another
\* order is the same run under other index labels.
InitMulti ==
    /\ csv \in Tables(MultiRows)
    /\ df = [k \in 1..MultiRows |-> k]
    /\ enabled \in SUBSET Providers
    /\ clientType \in [Providers -> {"openai", "llama", "mystery"}]
    /\ clientType["openai"] # "llama"
    /\ dir = [o \in OutputDirs |-> EmptyDir]
    /\ FirstRun
    /\ ParserOff

NextMulti == RunNext(Responses, Times)

SpecMulti == InitMulti /\ [][NextMulti]_vars

\* The same, every client.process call settling and every task being scheduled.
SpecMultiFair == SpecMulti /\ WF_vars(NextMulti)

\* One run of one provider's scheduler with token counts that differ or are
\* missing and durations that differ, the sample in the table's order (every
\* table of NumRows records is drawn).
InitTelemetry ==
    /\ csv \in Tables(NumRows)
    /\ df = [k \in 1..NumRows |-> k]
    /\ enabled = {"openai"}
    /\ clientType = [p \in Providers |-> ConfiguredClientType(p)]
    /\ dir = [o \in OutputDirs |-> EmptyDir]
    /\ FirstRun
    /\ ParserOff

NextTelemetry == RunNext(TelemetryResponses, TelemetryTimes)

SpecTelemetry == InitTelemetry /\ [][NextTelemetry]_vars

\* One run of one provider's scheduler over a table that has the column
\* text_content or lacks it, the output directory empty or holding row 1's
\* output of an earlier run.
InitNoColumn ==
    /\ csv \in Tables(NumRows) \cup {[i \in 1..NumRows |-> Missing]}
    /\ df \in Sample(csv, NumRows)
    /\ enabled = {"openai"}
    /\ clientType = [p \in Providers |-> ConfiguredClientType(p)]
    /\ dir \in {[o \in OutputDirs |-> EmptyDir],
                [o \in OutputDirs |-> IF o = ClientDir("openai") THEN Leftover ELSE EmptyDir]}
    /\ FirstRun
    /\ ParserOff

SpecNoColumn == InitNoColumn /\ [][Next]_vars

\* ------------------------------------------------------------ 03_parse.py: text

\* The whitespace of str.strip() and of the regular expression class \s that
\* the documents of the model contain.
Whitespace == {" ", "\n"}

RECURSIVE LStrip(_)
\* str.lstrip()
LStrip(s) == IF s # <<>> /\ Head(s) \in Whitespace THEN LStrip(Tail(s)) ELSE s

RECURSIVE RStrip(_)
\* str.rstrip()
RStrip(s) ==
    IF s # <<>> /\ s[Len(s)] \in Whitespace THEN RStrip(SubSeq(s, 1, Len(s) - 1)) ELSE s

\* str.strip()
Strip(s) == LStrip(RStrip(s))

\* str.startswith(prefix)
StartsWith(s, prefix) ==
    /\ Len(s) >= Len(prefix)
    /\ SubSeq(s, 1, Len(prefix)) = prefix

RECURSIVE Split(_, _)
\* str.split(sep) for a one-character sep: the texts between the separators,
\* one more than there are separators.
Split(s, sep) ==
    LET hits == {i \in 1..Len(s) : s[i] = sep}
    IN  IF hits = {} THEN <<s>>
        ELSE LET i == CHOOSE x \in hits : \A y \in hits : x <= y
             IN  <<SubSeq(s, 1, i - 1)>> \o Split(SubSeq(s, i + 1, Len(s)), sep)

\* The code fence marker: three grave accents (U+0060), which a TLA+ string
\* cannot hold and which go under the name "grave".
Fence == <<"grave", "grave", "grave">>
JsonTag == <<"j", "s", "o", "n">>

\* A fence expression that knows no language tag: ^(fence)\s*
StripLeadingFenceNoTag(raw) ==
    IF StartsWith(raw, Fence) THEN LStrip(SubSeq(raw, 4, Len(raw))) ELSE raw

\* re.sub(r"^(fence)(?:json)?\s*", "", raw), (fence) standing for three grave accents
StripLeadingFence(raw) ==
    IF ~StartsWith(raw, Fence) THEN raw
    ELSE LET rest == SubSeq(raw, 4, Len(raw))
         IN  IF StartsWith(rest, JsonTag)
             THEN LStrip(SubSeq(rest, 5, Len(rest)))
             ELSE LStrip(rest)

\* re.sub(r"\s*(fence)$", "", raw), for a raw that does not end in a line break
StripTrailingFence(raw) ==
    IF EndsWith(raw, Fence) THEN RStrip(SubSeq(raw, 1, Len(raw) - 3)) ELSE raw

\* ------------------------------------------------------------ 03_parse.py: json

\* Python values json.loads returns besides str, int and None: a dict as the
\* sequence of its (key, value) pairs in insertion order, a list, a bool.
DictVal(pairs) == <<"dict", pairs>>
ListVal(items) == <<"list", items>>
BoolVal(b) == <<"bool", b>>

\* isinstance(x, dict)
IsDict(x) == x[1] = "dict"

Quote == "\""

\* What a scanner returns: a value and the position after it, or a failure.
Fail == [ok |-> FALSE, val |-> None, pos |-> 0]
Ok(v, pos) == [ok |-> TRUE, val |-> v, pos |-> pos]

RECURSIVE SkipWs(_, _)
\* The first position from i on that holds no whitespace.
SkipWs(s, i) == IF i <= Len(s) /\ s[i] \in Whitespace THEN SkipWs(s, i + 1) ELSE i

\* s holds the text word at position i.
At(s, i, word) == i + Len(word) - 1 <= Len(s) /\ SubSeq(s, i, i + Len(word) - 1) = word

RECURSIVE StringEnd(_, _)
\* The position of the quote that closes a string whose content starts at i;
\* 0 if there is none or a line break comes first (the documents of the model
\* hold no backslash).
StringEnd(s, i) ==
    IF i > Len(s) \/ s[i] = "\n" THEN 0
    ELSE IF s[i] = Quote THEN i
    ELSE StringEnd(s, i + 1)

\* json scanner, a string: s[i] is the opening quote.
ParseString(s, i) ==
    LET j == StringEnd(s, i + 1)
    IN  IF j = 0 THEN Fail ELSE Ok(StrVal(SubSeq(s, i + 1, j - 1)), j + 1)

Digits == <<"0", "1", "2", "3", "4", "5", "6", "7", "8", "9">>

IsDigit(c) == \E d \in 1..Len(Digits) : Digits[d] = c

RECURSIVE ParseDigits(_, _, _)
\* json scanner, an integer without sign: the digits from i on, n so far.
ParseDigits(s, i, n) ==
    IF i <= Len(s) /\ IsDigit(s[i])
    THEN ParseDigits(s, i + 1, 10 * n + (CHOOSE d \in 1..Len(Digits) : Digits[d] = s[i]) - 1)
    ELSE Ok(IntVal(n), i)

\* dict[k] = v: the value of an existing key is replaced where the key stands.
Put(pairs, k, v) ==
    IF \E n \in 1..Len(pairs) : pairs[n][1] = k
    THEN [n \in 1..Len(pairs) |-> IF pairs[n][1] = k THEN <<k, v>> ELSE pairs[n]]
    ELSE Append(pairs, <<k, v>>)

RECURSIVE ParseValue(_, _)
RECURSIVE ParseMembers(_, _, _)
RECURSIVE ParseElements(_, _, _)

\* json scanner, any value: s[i] is its first character.
ParseValue(s, i) ==
    IF i > Len(s) THEN Fail
    ELSE IF s[i] = Quote THEN ParseString(s, i)
    ELSE IF s[i] = "{" THEN
        LET j == SkipWs(s, i + 1)
        IN  IF j <= Len(s) /\ s[j] = "}" THEN Ok(DictVal(<<>>), j + 1)
            ELSE ParseMembers(s, j, <<>>)
    ELSE IF s[i] = "[" THEN
        LET j == SkipWs(s, i + 1)
        IN  IF j <= Len(s) /\ s[j] = "]" THEN Ok(ListVal(<<>>), j + 1)
            ELSE ParseElements(s, j, <<>>)
    ELSE IF At(s, i, <<"n", "u", "l", "l">>) THEN Ok(None, i + 4)
    ELSE IF At(s, i, <<"t", "r", "u", "e">>) THEN Ok(BoolVal(TRUE), i + 4)
    ELSE IF At(s, i, <<"f", "a", "l", "s", "e">>) THEN Ok(BoolVal(FALSE), i + 5)
    ELSE IF s[i] = "0" THEN Ok(IntVal(0), i + 1)
    ELSE IF IsDigit(s[i]) THEN ParseDigits(s, i, 0)
    ELSE Fail

\* json scanner, the members of an object: s[i] is to open the next key.
ParseMembers(s, i, acc) ==
    IF i > Len(s) \/ s[i] # Quote THEN Fail
    ELSE LET k == ParseString(s, i)
         IN  IF ~k.ok THEN Fail
             ELSE LET c == SkipWs(s, k.pos)
                  IN  IF c > Len(s) \/ s[c] # ":" THEN Fail
                      ELSE LET v == ParseValue(s, SkipWs(s, c + 1))
                           IN  IF ~v.ok THEN Fail
                               ELSE LET e == SkipWs(s, v.pos)
                                        more == Put(acc, k.val[2], v.val)
                                    IN  IF e > Len(s) THEN Fail
                                        ELSE IF s[e] = "}" THEN Ok(DictVal(more), e + 1)
                                        ELSE IF s[e] = ","
                                             THEN ParseMembers(s, SkipWs(s, e + 1), more)
                                        ELSE Fail

\* json scanner, the elements of an array: s[i] is to start the next value.
ParseElements(s, i, acc) ==
    LET v == ParseValue(s, i)
    IN  IF ~v.ok THEN Fail
        ELSE LET e == SkipWs(s, v.pos)
                 more == Append(acc, v.val)
             IN  IF e > Len(s) THEN Fail
                 ELSE IF s[e] = "]" THEN Ok(ListVal(more), e + 1)
                 ELSE IF s[e] = "," THEN ParseElements(s, SkipWs(s, e + 1), more)
                 ELSE Fail

\* json.loads(raw): the value of the one JSON text raw holds, or a
\* JSONDecodeError.
JsonLoads(raw) ==
    LET v == ParseValue(raw, SkipWs(raw, 1))
    IN  IF v.ok /\ SkipWs(raw, v.pos) = Len(raw) + 1
        THEN [ok |-> TRUE, val |-> v.val]
        ELSE [ok |-> FALSE, val |-> None]

\* A parse_extraction whose fence expression knows no language tag.
ParseExtractionNoTag(text) ==
    LET data == JsonLoads(StripTrailingFence(StripLeadingFenceNoTag(Strip(text))))
    IN  IF data.ok /\ IsDict(data.val)
        THEN [ok |-> TRUE, val |-> ListVal(<<data.val>>)]
        ELSE data

\* parse_extraction, on the text of the file.
ParseExtraction(text) ==
    LET data == JsonLoads(StripTrailingFence(StripLeadingFence(Strip(text))))
    IN  IF data.ok /\ IsDict(data.val)
        THEN [ok |-> TRUE, val |-> ListVal(<<data.val>>)]
        ELSE data

\* ------------------------------------------------------------ 03_parse.py: tables

\* The characters of a key that extraction_to_tables looks up.
KeyText(name) ==
    CASE name = "incident_id" -> <<"i", "n", "c", "i", "d", "e", "n", "t", "_", "i", "d">>
      [] name = "location_street" ->
             <<"l", "o", "c", "a", "t", "i", "o",
               "n", "_", "s", "t", "r", "e", "e", "t">>
      [] name = "location_city" ->
             <<"l", "o", "c", "a", "t", "i",
               "o", "n", "_", "c", "i", "t", "y">>
      [] name = "location_county" ->
             <<"l", "o", "c", "a", "t", "i", "o",
               "n", "_", "c", "o", "u", "n", "t", "y">>
      [] name = "location_state" ->
             <<"l", "o", "c", "a", "t", "i", "o",
               "n", "_", "s", "t", "a", "t", "e">>
      [] name = "location_zip" -> <<"l", "o", "c", "a", "t", "i", "o", "n", "_", "z", "i", "p">>
      [] name = "location_type" ->
             <<"l", "o", "c", "a", "t", "i",
               "o", "n", "_", "t", "y", "p", "e">>
      [] name = "plaintiffs" -> <<"p", "l", "a", "i", "n", "t", "i", "f", "f", "s">>
      [] name = "plaintiff_id" -> <<"p", "l", "a", "i", "n", "t", "i", "f", "f", "_", "i", "d">>
      [] name = "name" -> <<"n", "a", "m", "e">>
      [] name = "race" -> <<"r", "a", "c", "e">>
      [] name = "gender" -> <<"g", "e", "n", "d", "e", "r">>
      [] name = "disability_status" ->
             <<"d", "i", "s", "a", "b", "i", "l", "i",
               "t", "y", "_", "s", "t", "a", "t", "u", "s">>
      [] name = "immigration_status" ->
             <<"i", "m", "m", "i", "g", "r", "a", "t", "i",
               "o", "n", "_", "s", "t", "a", "t", "u", "s">>
      [] name = "defendants" -> <<"d", "e", "f", "e", "n", "d", "a", "n", "t", "s">>
      [] name = "defendant_id" -> <<"d", "e", "f", "e", "n", "d", "a", "n", "t", "_", "i", "d">>
      [] name = "doe_status" -> <<"d", "o", "e", "_", "s", "t", "a", "t", "u", "s">>
      [] name = "entity_type" -> <<"e", "n", "t", "i", "t", "y", "_", "t", "y", "p", "e">>
      [] name = "agency" -> <<"a", "g", "e", "n", "c", "y">>
      [] name = "agency_type" -> <<"a", "g", "e", "n", "c", "y", "_", "t", "y", "p", "e">>
      [] name = "role_in_incident" ->
             <<"r", "o", "l", "e", "_", "i", "n", "_",
               "i", "n", "c", "i", "d", "e", "n", "t">>
      [] name = "harms" -> <<"h", "a", "r", "m", "s">>
      [] name = "type" -> <<"t", "y", "p", "e">>
      [] name = "associated_plaintiff_ids" ->
             <<"a", "s", "s", "o", "c", "i", "a", "t", "e", "d", "_", "p",
               "l", "a", "i", "n", "t", "i", "f", "f", "_", "i", "d", "s">>
      [] name = "associated_defendant_ids" ->
             <<"a", "s", "s", "o", "c", "i", "a", "t", "e", "d", "_", "d",
               "e", "f", "e", "n", "d", "a", "n", "t", "_", "i", "d", "s">>

\* The attribute columns of the three entity tables.
IncidentAttrs ==
    {"incident_id", "location_street", "location_city", "location_county",
     "location_state", "location_zip", "location_type"}

PlaintiffAttrs ==
    {"plaintiff_id", "name", "race", "gender", "disability_status", "immigration_status"}

DefendantAttrs ==
    {"defendant_id", "name", "race", "gender", "doe_status", "entity_type", "agency",
     "agency_type", "role_in_incident"}

\* str(uuid.uuid4()): the n-th identity drawn; two draws never give the same.
UuidVal(n) == <<"uuid", n>>

\* get_file_id, on the name of the file: the hexadecimal record id the name
\* starts with (of the width of a record id: 32 in the source, see RowId), ""
\* if it starts with none.
GetFileId(filename) ==
    LET width == Len(RowId(1))
    IN  IF /\ Len(filename) >= width
           /\ \A n \in 1..width : \E h \in 1..Len(HexDigits) : HexDigits[h] = filename[n]
        THEN SubSeq(filename, 1, width)
        ELSE <<>>

\* d.get(key, default) on a dict d.
Get(d, key, default) ==
    LET hits == {n \in 1..Len(d[2]) : d[2][n][1] = key}
    IN  IF hits = {} THEN default ELSE d[2][CHOOSE n \in hits : TRUE][2]

\* for x in v: the items of a list, the characters of a str, the keys of a
\* dict; any other value is not iterable (TypeError).
Iterate(v) ==
    IF v[1] = "list" THEN [ok |-> TRUE, items |-> v[2]]
    ELSE IF v[1] = "str" THEN [ok |-> TRUE, items |-> [n \in 1..Len(v[2]) |-> StrVal(<<v[2][n]>>)]]
    ELSE IF v[1] = "dict" THEN [ok |-> TRUE, items |-> [n \in 1..Len(v[2]) |-> StrVal(v[2][n][1])]]
    ELSE [ok |-> FALSE, items |-> <<>>]

\* The dict appended to incidents_rows.
IncidentRow(inc, iid, file_id) ==
    [c \in {"incident_uuid", "file_id"} \cup IncidentAttrs |->
        IF c = "incident_uuid" THEN iid
        ELSE IF c = "file_id" THEN StrVal(file_id)
        ELSE Get(inc, KeyText(c), StrVal(<<>>))]

\* The dict appended to plaintiffs_rows.
PlaintiffRow(p, uid, iid, file_id) ==
    [c \in {"plaintiff_uuid", "incident_uuid", "file_id"} \cup PlaintiffAttrs |->
        IF c = "plaintiff_uuid" THEN uid
        ELSE IF c = "incident_uuid" THEN iid
        ELSE IF c = "file_id" THEN StrVal(file_id)
        ELSE Get(p, KeyText(c), StrVal(<<>>))]

\* The dict appended to defendants_rows.
DefendantRow(d, uid, iid, file_id) ==
    [c \in {"defendant_uuid", "incident_uuid", "file_id"} \cup DefendantAttrs |->
        IF c = "defendant_uuid" THEN uid
        ELSE IF c = "incident_uuid" THEN iid
        ELSE IF c = "file_id" THEN StrVal(file_id)
        ELSE Get(d, KeyText(c), StrVal(<<>>))]

\* The dict appended to harms_rows for one token of the type string.
HarmRow(h, harm_type, uid, iid, file_id) ==
    [harm_uuid |-> uid,
     incident_uuid |-> iid,
     file_id |-> StrVal(file_id),
     harm_type |-> StrVal(Strip(harm_type)),
     associated_plaintiff_ids |-> Get(h, KeyText("associated_plaintiff_ids"), StrVal(<<>>)),
     associated_defendant_ids |-> Get(h, KeyText("associated_defendant_ids"), StrVal(<<>>))]

\* A fan-out that keeps the empty tokens of the type string.
HarmTokensKeepEmpty(type) == Split(type, ";")

\* for harm_type in type.split(";"): if harm_type.strip(): the tokens that
\* give a row.
HarmTokens(type) == SelectSeq(Split(type, ";"), LAMBDA t : Strip(t) # <<>>)

\* What a loop of extraction_to_tables has built: rows, and the number of
\* identities drawn so far; or the exception that ended it.
Raised(error) == [ok |-> FALSE, error |-> error, rows |-> <<>>, uuid |-> 0]
Built(rows, uuid) == [ok |-> TRUE, error |-> "", rows |-> rows, uuid |-> uuid]

\* for p in inc.get("plaintiffs", []): one row per entry; an entry that is no
\* dict has no get (AttributeError).
PlaintiffRows(inc, iid, file_id, uuid) ==
    LET entries == Iterate(Get(inc, KeyText("plaintiffs"), ListVal(<<>>)))
    IN  IF ~entries.ok THEN Raised("TypeError")
        ELSE IF \E n \in 1..Len(entries.items) : ~IsDict(entries.items[n])
             THEN Raised("AttributeError")
        ELSE Built([n \in 1..Len(entries.items) |->
                       PlaintiffRow(entries.items[n], UuidVal(uuid + n), iid, file_id)],
                   uuid + Len(entries.items))

\* for d in inc.get("defendants", [])
DefendantRows(inc, iid, file_id, uuid) ==
    LET entries == Iterate(Get(inc, KeyText("defendants"), ListVal(<<>>)))
    IN  IF ~entries.ok THEN Raised("TypeError")
        ELSE IF \E n \in 1..Len(entries.items) : ~IsDict(entries.items[n])
             THEN Raised("AttributeError")
        ELSE Built([n \in 1..Len(entries.items) |->
                       DefendantRow(entries.items[n], UuidVal(uuid + n), iid, file_id)],
                   uuid + Len(entries.items))

RECURSIVE HarmRowsOf(_, _, _, _, _)
\* The harm loop over the entries still to do, rows so far in acc; a type that
\* is no str has no split (AttributeError).
HarmRowsOf(entries, iid, file_id, uuid, acc) ==
    IF entries = <<>> THEN Built(acc, uuid)
    ELSE LET h == Head(entries)
         IN  IF ~IsDict(h) THEN Raised("AttributeError")
             ELSE LET type == Get(h, KeyText("type"), StrVal(<<>>))
                  IN  IF ~IsStr(type) THEN Raised("AttributeError")
                      ELSE LET tokens == HarmTokens(type[2])
                               rows == [n \in 1..Len(tokens) |->
                                           HarmRow(h, tokens[n], UuidVal(uuid + n), iid, file_id)]
                           IN  HarmRowsOf(Tail(entries), iid, file_id,
                                          uuid + Len(tokens), acc \o rows)

\* for h in inc.get("harms", [])
HarmRows(inc, iid, file_id, uuid) ==
    LET entries == Iterate(Get(inc, KeyText("harms"), ListVal(<<>>)))
    IN  IF ~entries.ok THEN Raised("TypeError")
        ELSE HarmRowsOf(entries.items, iid, file_id, uuid, <<>>)

RECURSIVE IncidentsLoopKeepEarlier(_, _, _, _)
\* A loop that stops at an incident it cannot read and returns the rows of the
\* incidents before it.
IncidentsLoopKeepEarlier(incs, file_id, uuid, acc) ==
    IF incs = <<>> THEN [ok |-> TRUE, error |-> "", tables |-> acc, uuid |-> uuid]
    ELSE LET inc == Head(incs)
             iid == UuidVal(uuid + 1)
             stop == [ok |-> TRUE, error |-> "", tables |-> acc, uuid |-> uuid]
         IN  IF ~IsDict(inc) THEN stop
             ELSE LET pla == PlaintiffRows(inc, iid, file_id, uuid + 1)
                  IN  IF ~pla.ok THEN stop
                  ELSE LET defs == DefendantRows(inc, iid, file_id, pla.uuid)
                  IN  IF ~defs.ok THEN stop
                  ELSE LET har == HarmRows(inc, iid, file_id, defs.uuid)
                  IN  IF ~har.ok THEN stop
                  ELSE IncidentsLoopKeepEarlier(Tail(incs), file_id, har.uuid,
                          [incidents |-> Append(acc.incidents, IncidentRow(inc, iid, file_id)),
                           plaintiffs |-> acc.plaintiffs \o pla.rows,
                           defendants |-> acc.defendants \o defs.rows,
                           harms |-> acc.harms \o har.rows])

RECURSIVE IncidentsLoop(_, _, _, _)
\* for inc in parse_extraction(filepath), over the incidents still to do.
IncidentsLoop(incs, file_id, uuid, acc) ==
    IF incs = <<>> THEN [ok |-> TRUE, error |-> "", tables |-> acc, uuid |-> uuid]
    ELSE LET inc == Head(incs)
             iid == UuidVal(uuid + 1)
             raise(e) == [ok |-> FALSE, error |-> e, tables |-> NoTables, uuid |-> uuid]
         IN  IF ~IsDict(inc) THEN raise("AttributeError")
             ELSE LET pla == PlaintiffRows(inc, iid, file_id, uuid + 1)
                  IN  IF ~pla.ok THEN raise(pla.error)
                  ELSE LET defs == DefendantRows(inc, iid, file_id, pla.uuid)
                  IN  IF ~defs.ok THEN raise(defs.error)
                  ELSE LET har == HarmRows(inc, iid, file_id, defs.uuid)
                  IN  IF ~har.ok THEN raise(har.error)
                  ELSE IncidentsLoop(Tail(incs), file_id, har.uuid,
                          [incidents |-> Append(acc.incidents, IncidentRow(inc, iid, file_id)),
                           plaintiffs |-> acc.plaintiffs \o pla.rows,
                           defendants |-> acc.defendants \o defs.rows,
                           harms |-> acc.harms \o har.rows])

\* extraction_to_tables, on the name and the text of the file, `uuid` identities
\* having been drawn before: the four tables, or the exception raised.
ExtractionToTables(filename, text, uuid) ==
    LET data == ParseExtraction(text)
        raise(e) == [ok |-> FALSE, error |-> e, tables |-> NoTables, uuid |-> uuid]
    IN  IF ~data.ok THEN raise("JSONDecodeError")
        ELSE LET incs == Iterate(data.val)
             IN  IF ~incs.ok THEN raise("TypeError")
                 ELSE IncidentsLoop(incs.items, GetFileId(filename), uuid, NoTables)

\* ------------------------------------------------------------ 03_parse.py: documents

\* An object with the given keys, the Missing ones left out.
Object(pairs) == DictVal(SelectSeq(pairs, LAMBDA kv : kv[2] # Missing))

RECURSIVE Dump(_)
RECURSIVE DumpItems(_)
RECURSIVE DumpPairs(_)

\* The JSON text a provider writes for a value: ", " between the items of a
\* list, a line break between the members of an object, ": " after a key.
Dump(v) ==
    IF v[1] = "str" THEN <<Quote>> \o v[2] \o <<Quote>>
    ELSE IF v[1] = "int" THEN <<Digits[v[2] + 1]>>
    ELSE IF v[1] = "list" THEN <<"[">> \o DumpItems(v[2]) \o <<"]">>
    ELSE IF v[1] = "dict" THEN <<"{">> \o DumpPairs(v[2]) \o <<"}">>
    ELSE <<"n", "u", "l", "l">>

DumpItems(items) ==
    IF items = <<>> THEN <<>>
    ELSE IF Len(items) = 1 THEN Dump(items[1])
    ELSE Dump(items[1]) \o <<",", " ">> \o DumpItems(Tail(items))

DumpPairs(pairs) ==
    IF pairs = <<>> THEN <<>>
    ELSE LET member == <<Quote>> \o pairs[1][1] \o <<Quote, ":", " ">> \o Dump(pairs[1][2])
         IN  IF Len(pairs) = 1 THEN member
             ELSE member \o <<",", "\n">> \o DumpPairs(Tail(pairs))

\* How a provider wraps its JSON text: not at all ("plain"), in a bare fence,
\* in a fence tagged json, or in a tagged fence with blank space around it.
Wrap(w, c) ==
    IF w = "fence" THEN Fence \o <<"\n">> \o c \o <<"\n">> \o Fence
    ELSE IF w = "json" THEN Fence \o JsonTag \o <<"\n">> \o c \o <<"\n">> \o Fence
    ELSE IF w = "spaced" THEN <<"\n">> \o Fence \o JsonTag \o <<" ", "\n">> \o c
                                  \o <<" ", "\n">> \o Fence \o <<"\n">>
    ELSE c

\* The text of an output document: the JSON text of a value, whole or cut off
\* before its end (the provider ran out of tokens), wrapped; or nothing at all.
DocText(doc) ==
    IF doc.kind = "empty" THEN <<>>
    ELSE IF doc.kind = "cut"
         THEN Wrap(doc.wrap, SubSeq(Dump(doc.value), 1, Len(Dump(doc.value)) - 1))
    ELSE Wrap(doc.wrap, Dump(doc.value))

Json(v, w) == [kind |-> "json", value |-> v, wrap |-> w]
Cut(v, w) == [kind |-> "cut", value |-> v, wrap |-> w]
EmptyDoc == [kind |-> "empty", value |-> None, wrap |-> "plain"]

\* Texts of the documents: local ids, names, association strings, type
\* strings (the one of the spec's example, one with empty tokens, one of blank
\* space only).
Chars(text) ==
    CASE text = "p1" -> <<"p", "1">>
      [] text = "p2" -> <<"p", "2">>
      [] text = "p3" -> <<"p", "3">>
      [] text = "d1" -> <<"d", "1">>
      [] text = "p1;p2" -> <<"p", "1", ";", "p", "2">>
      [] text = "p1; p3" -> <<"p", "1", ";", " ", "p", "3">>
      [] text = "A; B ;C" -> <<"A", ";", " ", "B", " ", ";", "C">>
      [] text = "A;;" -> <<"A", ";", ";">>
      [] text = " " -> <<" ">>
      [] text = "Ann" -> <<"A", "n", "n">>
      [] text = "Bo" -> <<"B", "o">>
      [] text = "Cy" -> <<"C", "y">>
      [] text = "Di" -> <<"D", "i">>
      [] text = "Ed" -> <<"E", "d">>

\* A plaintiff or defendant entry with a local id and a name.
Person(idkey, id, name) ==
    Object(<< <<KeyText(idkey), StrVal(id)>>, <<KeyText("name"), StrVal(name)>> >>)

\* A harm entry.
HarmEntry(type, pids, dids) ==
    Object(<< <<KeyText("type"), type>>,
              <<KeyText("associated_plaintiff_ids"), pids>>,
              <<KeyText("associated_defendant_ids"), dids>> >>)

\* An incident record.
IncidentRecord(city, plaintiffs, defendants, harms) ==
    Object(<< <<KeyText("incident_id"), StrVal(<<"1">>)>>,
              <<KeyText("location_city"), city>>,
              <<KeyText("plaintiffs"), plaintiffs>>,
              <<KeyText("defendants"), defendants>>,
              <<KeyText("harms"), harms>> >>)

\* ------------------------------------------------------------ 03_parse.py: script

RECURSIVE Flatten(_)
\* pd.concat(frames, ignore_index=True), on the row lists of the frames.
Flatten(lists) == IF lists = <<>> THEN <<>> ELSE Head(lists) \o Flatten(Tail(lists))

\* A row with one more column.
With(row, col, v) == [c \in DOMAIN row \cup {col} |-> IF c = col THEN v ELSE row[c]]

\* df.insert(0, "source_file", txt_file.name) on the four frames of a file.
WithSourceFile(t, filename) ==
    LET ins(rows) == [n \in 1..Len(rows) |-> With(rows[n], "source_file", StrVal(filename))]
    IN  [incidents |-> ins(t.incidents), plaintiffs |-> ins(t.plaintiffs),
         defendants |-> ins(t.defendants), harms |-> ins(t.harms)]

\* The name a column of the right table has in the merged table.
Renamed(rename, c) == IF c \in DOMAIN rename THEN rename[c] ELSE c

\* A row of left.merge(right, how="left"): the left row and the columns cols of
\* the right row r under their new names, null (NaN) without a matching r.
MergedRow(l, r, matched, cols, rename) ==
    [c \in DOMAIN l \cup {Renamed(rename, k) : k \in cols} |->
        IF c \in DOMAIN l THEN l[c]
        ELSE IF matched THEN r[CHOOSE k \in cols : Renamed(rename, k) = c]
        ELSE NaN]

\* left.merge(right[keys + cols], on=keys, how="left").rename(columns=rename):
\* every left row in order, once per right row that agrees with it on the
\* keys, once with nulls if there is none.
LeftMerge(left, right, keys, cols, rename) ==
    Flatten([n \in 1..Len(left) |->
        LET hits == SelectSeq(right, LAMBDA r : \A k \in keys : r[k] = left[n][k])
        IN  IF hits = <<>> THEN <<MergedRow(left[n], left[n], FALSE, cols, rename)>>
            ELSE [j \in 1..Len(hits) |-> MergedRow(left[n], hits[j], TRUE, cols, rename)]])

\* attach_ids
AttachIds(rows, mapping) ==
    LeftMerge(rows, mapping, {"file_id"}, {"document_id", "case_id"}, [c \in {} |-> ""])

\* col.str.split(";"), explode, col.str.strip(): one row per token of the
\* column `from`, the trimmed token in the column `to`; a value that is no str
\* gives one row with a null token.
Explode(rows, from, to) ==
    Flatten([n \in 1..Len(rows) |->
        IF IsStr(rows[n][from])
        THEN LET tokens == Split(rows[n][from][2], ";")
             IN  [j \in 1..Len(tokens) |-> With(rows[n], to, StrVal(Strip(tokens[j])))]
        ELSE <<With(rows[n], to, NaN)>>])

\* A join on the local id alone.
JoinKeysLocal(idcol) == {idcol}

\* on=["incident_uuid", "plaintiff_id"], on=["incident_uuid", "defendant_id"]
JoinKeys(idcol) == {"incident_uuid", idcol}

PlaintiffRename ==
    [name |-> "plaintiff_name", race |-> "plaintiff_race", gender |-> "plaintiff_gender",
     disability_status |-> "plaintiff_disability_status",
     immigration_status |-> "plaintiff_immigration_status"]

DefendantRename ==
    [name |-> "defendant_name", race |-> "defendant_race", gender |-> "defendant_gender"]

\* harms_with_plaintiffs
HarmsWithPlaintiffs(harms, plaintiffs) ==
    LeftMerge(Explode(harms, "associated_plaintiff_ids", "plaintiff_id"), plaintiffs,
              JoinKeys("plaintiff_id"),
              ({"plaintiff_uuid"} \cup PlaintiffAttrs) \ {"plaintiff_id"}, PlaintiffRename)

\* harms_with_defendants
HarmsWithDefendants(harms, defendants) ==
    LeftMerge(Explode(harms, "associated_defendant_ids", "defendant_id"), defendants,
              JoinKeys("defendant_id"),
              ({"defendant_uuid"} \cup DefendantAttrs) \ {"defendant_id"}, DefendantRename)

\* The folder load_folder reads: the output directory of the openai provider.
Folder == dir[ClientDir("openai")]

\* Path(folder_path).glob("*.txt")
TxtFiles == {f \in ListDir(Folder) : EndsWith(f, TxtExt)}

\* A loop whose files all draw their identities from the same start.
LoadFileSameUuids(f) ==
    /\ ppos = "load"
    /\ f \in TxtFiles \ loaded
    /\ loaded' = loaded \cup {f}
    /\ LET r == ExtractionToTables(f, Folder[f], uuids)
       IN  IF r.ok
           THEN /\ frames' = Append(frames, WithSourceFile(r.tables, f))
                /\ UNCHANGED <<failed, uuids>>
           ELSE /\ failed' = Append(failed, [file |-> f, error |-> r.error])
                /\ UNCHANGED <<frames, uuids>>
    /\ UNCHANGED <<ppos, perr, docs, filtered, tables, joined>>
    /\ UNCHANGED <<runVars, dir>>

\* One round of load_folder's loop, glob yielding the files in any order: the
\* file's four frames are appended, or its name and error are.
LoadFile(f) ==
    /\ ppos = "load"
    /\ f \in TxtFiles \ loaded
    /\ loaded' = loaded \cup {f}
    /\ LET r == ExtractionToTables(f, Folder[f], uuids)
       IN  IF r.ok
           THEN /\ frames' = Append(frames, WithSourceFile(r.tables, f))
                /\ uuids' = r.uuid
                /\ UNCHANGED failed
           ELSE /\ failed' = Append(failed, [file |-> f, error |-> r.error])
                /\ UNCHANGED <<frames, uuids>>
    /\ UNCHANGED <<ppos, perr, docs, filtered, tables, joined>>
    /\ UNCHANGED <<runVars, dir>>

\* load_folder after its loop: pd.concat of each of the four lists, which
\* raises ValueError for an empty list.
Concat ==
    /\ ppos = "load"
    /\ loaded = TxtFiles
    /\ IF frames = <<>>
       THEN /\ ppos' = "crashed"
            /\ perr' = "ValueError"
            /\ UNCHANGED tables
       ELSE /\ ppos' = "loaded"
            /\ tables' =
                  [incidents |-> Flatten([n \in 1..Len(frames) |-> frames[n].incidents]),
                   plaintiffs |-> Flatten([n \in 1..Len(frames) |-> frames[n].plaintiffs]),
                   defendants |-> Flatten([n \in 1..Len(frames) |-> frames[n].defendants]),
                   harms |-> Flatten([n \in 1..Len(frames) |-> frames[n].harms])]
            /\ UNCHANGED perr
    /\ UNCHANGED <<docs, loaded, frames, failed, uuids, filtered, joined>>
    /\ UNCHANGED <<runVars, dir>>

\* The four attach_ids calls, each binding its table anew. A table without
\* any row has the column source_file only, and merge raises KeyError for the
\* missing file_id: the script ends there, the tables before it attached.
Attach ==
    /\ ppos = "loaded"
    /\ LET order == <<"incidents", "plaintiffs", "defendants", "harms">>
           empty == {k \in 1..Len(order) : tables[order[k]] = <<>>}
           stop == IF empty = {} THEN Len(order) + 1
                   ELSE CHOOSE k \in empty : \A j \in empty : k <= j
       IN  /\ tables' = [t \in DOMAIN tables |->
                            IF \E k \in 1..(stop - 1) : order[k] = t
                            THEN AttachIds(tables[t], filtered)
                            ELSE tables[t]]
           /\ IF empty = {}
              THEN ppos' = "attached" /\ UNCHANGED perr
              ELSE ppos' = "crashed" /\ perr' = "KeyError"
    /\ UNCHANGED <<docs, loaded, frames, failed, uuids, filtered, joined>>
    /\ UNCHANGED <<runVars, dir>>

\* The two explosion joins.
Join ==
    /\ ppos = "attached"
    /\ ppos' = "joined"
    /\ joined' =
          [harms_with_plaintiffs |-> HarmsWithPlaintiffs(tables.harms, tables.plaintiffs),
           harms_with_defendants |-> HarmsWithDefendants(tables.harms, tables.defendants)]
    /\ UNCHANGED <<perr, docs, loaded, frames, failed, uuids, filtered, tables>>
    /\ UNCHANGED <<runVars, dir>>

ParseNext ==
    \/ \E f \in TxtFiles : LoadFile(f)
    \/ Concat
    \/ Attach
    \/ Join

\* ------------------------------------------------------------ 03_parse.py: specifications

\* Output documents in the folder in the folder specification.
NumDocs == 2

TwoPlaintiffs ==
    ListVal(<<Person("plaintiff_id", Chars("p1"), Chars("Ann")), Person("plaintiff_id", Chars("p2"), Chars("Bo"))>>)

OneDefendant == ListVal(<<Person("defendant_id", Chars("d1"), Chars("Cy"))>>)

\* The documents of the single-document specification: one incident with two
\* plaintiffs, a defendant and two harm entries, the city of the incident and
\* the type and the plaintiff association of the first entry each given, left
\* out or (city, type) null; as a list or as a single object; whole or cut
\* off; wrapped in every way.
TableDocs ==
    LET incs == {IncidentRecord(city, TwoPlaintiffs, OneDefendant,
                                ListVal(<<HarmEntry(type, pids, StrVal(Chars("d1"))),
                                          HarmEntry(StrVal(<<"D">>), StrVal(Chars("p3")), Missing)>>)) :
                     city \in {Missing, StrVal(<<"L", "A">>), None},
                     type \in {StrVal(Chars("A; B ;C")), StrVal(Chars("A;;")), StrVal(Chars(" ")), Missing, None},
                     pids \in {StrVal(Chars("p1;p2")), StrVal(Chars("p1; p3")), Missing}}
        values == incs \cup {ListVal(<<inc>>) : inc \in incs}
        wraps == {"plain", "fence", "json", "spaced"}
    IN  {Json(v, w) : v \in values, w \in wraps} \cup {Cut(v, w) : v \in values, w \in wraps}
            \cup {EmptyDoc}

\* The documents of the folder specification.
FolderDocs ==
    LET DocA ==
            Json(ListVal(<<IncidentRecord(StrVal(<<"L", "A">>), TwoPlaintiffs, OneDefendant,
                     ListVal(<<HarmEntry(StrVal(Chars("A; B ;C")), StrVal(Chars("p1;p2")), StrVal(Chars("d1"))),
                               HarmEntry(StrVal(<<"D">>), StrVal(Chars("p3")), Missing)>>))>>), "json")
        \* A single object whose incident uses the local ids p1 and d1 again; it has
        \* no plaintiff p2.
        DocB ==
            Json(IncidentRecord(Missing,
                     ListVal(<<Person("plaintiff_id", Chars("p1"), Chars("Di"))>>),
                     ListVal(<<Person("defendant_id", Chars("d1"), Chars("Ed"))>>),
                     ListVal(<<HarmEntry(StrVal(<<"B">>), StrVal(Chars("p1;p2")), StrVal(Chars("d1")))>>)),
                 "plain")
        \* Two incidents of one file that both use the local id p1, and name a
        \* defendant the document does not list.
        DocC ==
            Json(ListVal(<<IncidentRecord(Missing, ListVal(<<Person("plaintiff_id", Chars("p1"), Chars("Ann"))>>),
                               Missing, ListVal(<<HarmEntry(StrVal(<<"A">>), StrVal(Chars("p1")), StrVal(Chars("d1")))>>)),
                           IncidentRecord(Missing, ListVal(<<Person("plaintiff_id", Chars("p1"), Chars("Bo"))>>),
                               Missing, ListVal(<<HarmEntry(StrVal(<<"C">>), StrVal(Chars("p1")), Missing)>>))>>),
                 "fence")
        \* An incident whose city is null and that lists nobody.
        DocD == Json(ListVal(<<IncidentRecord(None, Missing, Missing, Missing)>>), "plain")
        \* A document whose second incident has a harm entry with a null type.
        DocE ==
            Json(ListVal(<<IncidentRecord(Missing, TwoPlaintiffs, OneDefendant,
                               ListVal(<<HarmEntry(StrVal(<<"A">>), StrVal(Chars("p1")), StrVal(Chars("d1")))>>)),
                           IncidentRecord(Missing, Missing, Missing,
                               ListVal(<<HarmEntry(None, Missing, Missing)>>))>>), "plain")
        \* DocB cut off before its end.
        DocF == Cut(DocB.value, "json")
        \* A document in which the provider found no incident: an empty list.
        DocG == Json(ListVal(<<>>), "plain")
    IN  {DocA, DocB, DocC, DocD, DocE, DocF, DocG, EmptyDoc}

\* The name of the output document of row i.
DocName(i) == FileName(RowId(i), ModelName("openai"), Timestamps[1])

\* The rows filtered_texts.csv may hold after drop_duplicates: none, one for
\* the first record, or two for it that differ in the document (the same text
\* filed as two documents of a case).
Mappings ==
    LET row(document) == [file_id |-> StrVal(RowId(1)), document_id |-> StrVal(document),
                          case_id |-> StrVal(<<"9">>)]
    IN  {<<>>, <<row(<<"7">>)>>, <<row(<<"7">>), row(<<"8">>)>>}

\* 03_parse.py starts over the folder that holds a summary and, under the
\* given names, documents of the pool; 02_extraction.py is not running.
ParseStart(names, pool) ==
    /\ csv = <<>>
    /\ df = <<>>
    /\ enabled = {}
    /\ clientType = [p \in Providers |-> ConfiguredClientType(p)]
    /\ docs \in [names -> pool]
    /\ dir = [o \in OutputDirs |->
                 IF o = ClientDir("openai")
                 THEN [f \in names \cup {SummaryName(Timestamps[1])} |->
                          IF f \in names THEN DocText(docs[f]) ELSE SummaryJson]
                 ELSE EmptyDir]
    /\ FirstRun
    /\ ppos = "load"
    /\ perr = ""
    /\ loaded = {}
    /\ frames = <<>>
    /\ failed = <<>>
    /\ uuids = 0
    /\ filtered \in Mappings
    /\ tables = NoTables
    /\ joined = NoJoined

\* 03_parse.py over a folder with one output document.
InitTables ==
    ParseStart({DocName(1)}, TableDocs)

SpecTables == InitTables /\ [][ParseNext]_vars

\* 03_parse.py over a folder with NumDocs output documents.
InitLoad ==
    ParseStart({DocName(i) : i \in 1..NumDocs}, FolderDocs)

SpecLoad == InitLoad /\ [][ParseNext]_vars

\* ------------------------------------------------------------ claims

\* The rows of provider p whose client.process call is in flight; these are the
\* tasks that hold a permit across a suspension.
InFlight(p) == {i \in Rows : tpc[p][i] = "call"}

NonEmpty(i) == csv[i] \in {StrVal(t) : t \in {Complaint}}

Settled(p) == \A i \in Rows : outcome[p][i].status \in {"success", "error", "skipped"}

WithStatus(p, st) == {i \in Rows : outcome[p][i].status = st}

OutputOf(p, i) == FileName(RowId(i), ModelName(p), timestamp)

\* C1: at most BATCH_SIZE rows of a provider hold a permit and have a
\* client.process call in flight, and while BATCH_SIZE calls are in flight no
\* further row of the provider can enter: it waits for a permit.
C1_PermitBound ==
    \A p \in Providers :
        /\ Cardinality(InFlight(p)) <= BATCH_SIZE
        /\ Cardinality(InFlight(p)) = BATCH_SIZE =>
               \A i \in Rows : ~ENABLED EnterRow(p, i)

C1_Witness ==
    \E p \in Providers :
        /\ Cardinality(InFlight(p)) = BATCH_SIZE
        /\ \E i \in Rows : tpc[p][i] = "wait"

\* The case of C2: every row has text and none is persisted, every call of the
\* provider has settled, exactly one raised.
C2_Case(p) ==
    /\ ppc[p] \in {"gather", "done", "failed"}
    /\ \A i \in Rows : NonEmpty(i) /\ RowId(i) \notin existing[p]
    /\ \A i \in Rows : reply[p][i].kind \in {"raise", "return"}
    /\ Cardinality({i \in Rows : reply[p][i].kind = "raise"}) = 1

C2_Counts(p) ==
    /\ Cardinality(WithStatus(p, "success")) = Cardinality(Rows) - 1
    /\ Cardinality(WithStatus(p, "error")) = 1
    /\ \A i \in Rows : outcome[p][i].status = "error" <=> reply[p][i].kind = "raise"
    /\ ppc[p] = "done" =>
           /\ summary[p].success_count = Cardinality(Rows) - 1
           /\ summary[p].error_count = 1

\* C2 as stated: if exactly one row's call raises and the other calls return,
\* the results hold N-1 success outcomes and one error outcome.
C2_Original == \A p \in Providers : C2_Case(p) => C2_Counts(p)

\* The outcome o is the error of an output file that could not be opened or
\* written.
WriteFailed(o) == o.status = "error" /\ o.error = "OSError"

\* A row's own client.process call raised, or returned something that is no
\* text, or the row's own output file could not be opened or written.
OwnFailure(p, i) ==
    \/ reply[p][i].kind = "raise"
    \/ reply[p][i].kind = "return" /\ ~IsStr(reply[p][i].content)
    \/ reply[p][i].kind = "return" /\ WriteFailed(outcome[p][i])

\* C2 as amended: if exactly one row's call raises and every other call returns
\* a text that is saved, the results hold N-1 success outcomes and one error
\* outcome, the error being the row whose call raised; and in every state a
\* row has an error outcome only through its own call or its own output
\* file, never through a sibling's: a task whose
\* call has not settled has no outcome yet.
C2_Isolation ==
    \A p \in Providers :
        /\ (C2_Case(p) /\ \A i \in Rows : ~OwnFailure(p, i) \/ reply[p][i].kind = "raise")
               => C2_Counts(p)
        /\ \A i \in Rows :
               /\ outcome[p][i].status = "error" => OwnFailure(p, i)
               /\ tpc[p][i] = "call" => outcome[p][i] = NoOutcome

C2_Witness ==
    \E p \in Providers :
        /\ C2_Case(p)
        /\ \A i \in Rows : ~OwnFailure(p, i) \/ reply[p][i].kind = "raise"
        /\ Cardinality(Rows) >= 2
        /\ ppc[p] = "done"

\* C4: a row whose outcome is error has no output file in the provider's
\* output directory (the directory was empty when the run started).
C4_NoFileOnError ==
    \A p \in Providers : \A i \in Rows :
        outcome[p][i].status = "error" => OutputOf(p, i) \notin DOMAIN dir[OutputDir(p)]

\* The per-record output files of a directory, with their contents.
OutputFiles(d) ==
    LET names == {f \in DOMAIN d : EndsWith(f, TxtExt)}
    IN  [f \in names |-> d[f]]

AlreadySaved(p, i) ==
    outcome[p][i].status = "skipped" /\ outcome[p][i].reason = "already_saved"

\* The case of C3: the previous run ended with every row of provider p settled
\* and none of them in error, and this run, over the same rows, has settled
\* every row, none of them in error.
C3_Case(p) ==
    /\ run >= 2
    /\ prev.mpc = "done"
    /\ DOMAIN prev.status[p] = Rows
    /\ \A i \in Rows : prev.status[p][i] \in {"success", "skipped"}
    /\ \A i \in Rows : tpc[p][i] = "done"
    /\ \A i \in Rows : outcome[p][i].status # "error"

\* C3 as stated: on the second run every outcome is skipped with the
\* already-persisted reason, no call is issued and the output files are the same.
C3_Original ==
    \A p \in Providers :
        C3_Case(p) =>
            /\ \A i \in Rows : AlreadySaved(p, i) /\ calls[p][i] = 0
            /\ OutputFiles(dir[OutputDir(p)]) = OutputFiles(before[OutputDir(p)])

\* A .txt file of the directory d has a name that begins with the record id
\* of row i followed by "_".
HasFileOf(d, i) ==
    \E f \in DOMAIN d :
        /\ EndsWith(f, TxtExt)
        /\ Len(f) > Len(RowId(i))
        /\ SubSeq(f, 1, Len(RowId(i)) + 1) = RowId(i) \o <<"_">>

\* C3 as amended: on the second run no outcome is a success and no call is
\* issued; every outcome is skipped: with the already-persisted reason exactly
\* for the rows of which the output directory held a .txt file when the second
\* run started, which every row with text is, and with the empty-content
\* reason for every other row, which has no text; and the output files are
\* the same before and after.
C3_Idempotent ==
    \A p \in Providers :
        C3_Case(p) =>
            /\ \A i \in Rows :
                  /\ outcome[p][i].status = "skipped"
                  /\ calls[p][i] = 0
                  /\ AlreadySaved(p, i) <=> HasFileOf(before[OutputDir(p)], i)
                  /\ NonEmpty(i) => AlreadySaved(p, i)
                  /\ ~AlreadySaved(p, i) =>
                        outcome[p][i].reason = "empty_text" /\ ~NonEmpty(i)
            /\ OutputFiles(dir[OutputDir(p)]) = OutputFiles(before[OutputDir(p)])

\* A second run that skips a row the first run saved as already persisted and
\* a row without text, of which no file was left, for its missing text.
C3_Witness ==
    \E p \in Providers :
        /\ C3_Case(p)
        /\ \E i \in Rows : prev.status[p][i] = "success" /\ AlreadySaved(p, i)
        /\ \E i \in Rows : ~NonEmpty(i) /\ ~AlreadySaved(p, i)

\* C5: a row whose outcome in the previous run was error, or whose call was in
\* flight when the previous run was interrupted, is not in the next run's
\* existing files, and the next run issues client.process for it if it has text.
C5_Reissued ==
    \A p \in Providers : \A i \in Rows :
        (/\ run >= 2
         /\ ppc[p] # "start"
         /\ i \in DOMAIN prev.status[p]
         /\ prev.status[p][i] \in {"error", "call"})
            => /\ RowId(i) \notin existing[p]
               /\ (tpc[p][i] = "done" /\ NonEmpty(i)) => calls[p][i] = 1

\* C6 as stated: a row is skipped as already persisted exactly when the output
\* directory held, when the run started, the output file of the row's record
\* id, the provider's model and the run's date.
C6_Original ==
    \A p \in Providers : \A i \in Rows :
        tpc[p][i] = "done" =>
            (AlreadySaved(p, i) <=> OutputOf(p, i) \in DOMAIN before[OutputDir(p)])

\* The output files a record id may have in a provider's directory, under any
\* model the provider was configured with and any run date.
OutputsOfRecord(i) ==
    {FileName(RowId(i), m, Timestamps[d]) :
        m \in {ModelName(q) : q \in Providers} \cup {EarlierModelName},
        d \in 1..Len(Timestamps)}

\* C6 as amended: a row is skipped as already persisted exactly when the output
\* directory held, when the run started, an output file of the row's record id,
\* whatever model and run date that file was written for; an output file of
\* another record id never makes the row skipped.
C6_KeyIsRecordId ==
    \A p \in Providers : \A i \in Rows :
        tpc[p][i] = "done" =>
            (AlreadySaved(p, i) <=> OutputsOfRecord(i) \cap DOMAIN before[OutputDir(p)] # {})

C6_Witness ==
    \E p \in Providers : \E i, j \in Rows :
        /\ tpc[p][i] = "done" /\ AlreadySaved(p, i)
        /\ OutputOf(p, i) \notin DOMAIN before[OutputDir(p)]
        /\ tpc[p][j] = "done" /\ outcome[p][j].status = "success"
        /\ OutputFiles(before[OutputDir(p)]) # EmptyDir

RECURSIVE TimeOver(_, _)
\* The elapsed times of the rows S of provider p, added up.
TimeOver(p, S) ==
    IF S = {} THEN 0
    ELSE LET i == CHOOSE x \in S : TRUE
         IN  outcome[p][i].time + TimeOver(p, S \ {i})

RECURSIVE TokensOver(_, _)
\* The token counts of the rows S of provider p, added up, a missing one as 0.
TokensOver(p, S) ==
    IF S = {} THEN 0
    ELSE LET i == CHOOSE x \in S : TRUE
             k == IF outcome[p][i].tokens = None THEN 0 ELSE outcome[p][i].tokens[2]
         IN  k + TokensOver(p, S \ {i})

\* C7: a provider's summary counts the outcomes of each status; its average is
\* the mean elapsed time of the success outcomes (0 without one) and its token
\* total the sum of their token counts, a missing count as 0; error and skipped
\* outcomes add nothing to either.
C7_Summary ==
    \A p \in Providers :
        ppc[p] = "done" =>
            LET sm == summary[p]
                ok == WithStatus(p, "success")
            IN  /\ sm.success_count = Cardinality(ok)
                /\ sm.error_count = Cardinality(WithStatus(p, "error"))
                /\ sm.skipped_count = Cardinality(WithStatus(p, "skipped"))
                /\ ok = {} => sm.avg_time_per_request = Zero
                /\ ok # {} =>
                       /\ sm.avg_time_per_request.den > 0
                       /\ sm.avg_time_per_request.num * Cardinality(ok)
                              = TimeOver(p, ok) * sm.avg_time_per_request.den
                /\ sm.total_tokens = TokensOver(p, ok)

\* The scenario of the spec: one row without text, one row whose call raises,
\* one success with 120 tokens.
C7_Witness ==
    \E p \in Providers : \E i, j, k \in Rows :
        /\ ppc[p] = "done"
        /\ Cardinality(Rows) = 3
        /\ outcome[p][i].status = "skipped" /\ outcome[p][i].reason = "empty_text"
        /\ outcome[p][j].status = "error" /\ reply[p][j].kind = "raise"
        /\ outcome[p][k].status = "success" /\ outcome[p][k].tokens = IntVal(120)
        /\ outcome[p][j].time # outcome[p][k].time
        /\ summary[p].success_count = 1
        /\ summary[p].error_count = 1
        /\ summary[p].skipped_count = 1
        /\ summary[p].total_tokens = 120
        /\ summary[p].avg_time_per_request = [num |-> outcome[p][k].time, den |-> 1]

\* C8: when main has written the combined summary, a provider whose scheduler
\* failed as a whole is absent from it and every other enabled provider is in
\* it, under its own name, with the outcome of every one of its rows; and while
\* main runs, a failed provider leaves every sibling able to take its next step.
C8_ProviderIsolation ==
    /\ mpc = "done" =>
           /\ DOMAIN combined \subseteq enabled
           /\ \A p \in enabled :
                 /\ ppc[p] = "failed" => p \notin DOMAIN combined
                 /\ ppc[p] # "failed" =>
                        /\ p \in DOMAIN combined
                        /\ combined[p].llm_type = p
                        /\ Len(combined[p].results) = Cardinality(Rows)
                        /\ \A k \in DOMAIN df :
                              /\ combined[p].results[k] = outcome[p][df[k]]
                              /\ outcome[p][df[k]].status \in {"success", "error", "skipped"}
    /\ (mpc = "run" /\ \E q \in enabled : ppc[q] = "failed") =>
           /\ \A p \in enabled :
                 /\ ppc[p] = "start" => ENABLED StartProvider(p, TRUE)
                 /\ ppc[p] = "gather" =>
                        \/ \E i \in Rows : ENABLED EnterRow(p, i)
                        \/ \E i \in Rows : ENABLED Settle(p, i, Raise, 1, "written")
                        \/ ENABLED Finish(p, "written")
           /\ AllReturned => ENABLED Combine(TRUE)

C8_Witness ==
    /\ mpc = "done"
    /\ \E p, q \in enabled :
          /\ ppc[p] = "failed" /\ clientType[p] = "mystery"
          /\ ppc[q] = "done" /\ q \in DOMAIN combined
          /\ combined[q].success_count > 0

\* What C9 promises of the state main ends in: the combined summary is written,
\* and every provider whose scheduler returned a summary has written its
\* summary document and is in the combined summary, with counts that add up to
\* the number of rows, also when it has no success.
C9_End ==
    /\ mpc = "done"
    /\ \A p \in enabled :
          ppc[p] = "done" =>
              /\ SummaryName(timestamp) \in DOMAIN dir[OutputDir(p)]
              /\ p \in DOMAIN combined
              /\ WithStatus(p, "success") = {} =>
                     /\ combined[p].success_count = 0
                     /\ combined[p].error_count + combined[p].skipped_count
                            = Cardinality(Rows)

\* C9: every run of main eventually writes the combined summary and ends,
\* whatever the outcomes, a run without any success included; every provider
\* whose scheduler did not fail as a whole has then written its summary.
C9_Terminates == <>(C9_End \/ mpc = "failed")

\* C9 as stated: main ends with the combined summary written and, when no
\* provider has a success, with the summary of each enabled provider written.
C9_Original ==
    <>(/\ mpc = "done"
       /\ (\A p \in enabled : WithStatus(p, "success") = {}) =>
              \A p \in enabled :
                  /\ summary[p] # NoSummary
                  /\ SummaryName(timestamp) \in DOMAIN dir[OutputDir(p)]
                  /\ summary[p].success_count = 0
                  /\ summary[p].error_count + summary[p].skipped_count
                         = Cardinality(Rows))

C9_Witness ==
    /\ C9_End
    /\ enabled = Providers
    /\ \A p \in enabled : ppc[p] = "done" /\ summary[p].success_count = 0
    /\ \E p \in enabled : summary[p].error_count = Cardinality(Rows)

\* C10: a provider's summary exists (returned or written) only once every task
\* of the provider has settled; the combined summary is written only once
\* every enabled provider's process_with_llm has finished or failed.
C10_Barrier ==
    /\ \A p \in Providers :
          summary[p] # NoSummary =>
              \A i \in Rows :
                  /\ tpc[p][i] = "done"
                  /\ outcome[p][i].status \in {"success", "error", "skipped"}
    /\ \A o \in OutputDirs :
          SummaryName(timestamp) \in DOMAIN dir[o] =>
              \E p \in enabled :
                  /\ GetClient(clientType[p]) # None
                  /\ OutputDir(p) = o
                  /\ ppc[p] \in {"done", "failed"}
                  /\ \A i \in Rows : tpc[p][i] = "done"
    /\ mpc = "done" => \A p \in enabled : ppc[p] \in {"done", "failed"}

C10_Witness ==
    /\ mpc = "done"
    /\ enabled = Providers
    /\ \E p \in enabled :
          /\ ppc[p] = "done"
          /\ SummaryName(timestamp) \in DOMAIN dir[OutputDir(p)]
          /\ Cardinality(Rows) >= 2
          /\ \A i \in Rows : reply[p][i].kind # "none"
    /\ \E q \in enabled : ppc[q] = "failed"

\* The files of provider p that carry row i's record id are the ones the run
\* found, unchanged.
RowFilesUntouched(p, i) ==
    \A f \in DOMAIN dir[OutputDir(p)] :
        SplitFirst(f, "_") = RowId(i) =>
            /\ f \in DOMAIN before[OutputDir(p)]
            /\ dir[OutputDir(p)][f] = before[OutputDir(p)][f]

\* text_content is missing (NaN) or the empty string.
NoText(i) == csv[i] = NaN \/ csv[i] = StrVal(<<>>)

\* C11: a row whose record id is in the already-persisted set, and a row
\* without text, never has client.process called; once its task has returned
\* the outcome is skipped, with reason already_saved for the first (also when
\* it has no text) and empty_text for the second, and no output file of the
\* row is written.
C11_SkipsCallNothing ==
    \A p \in Providers : \A i \in Rows :
        (ppc[p] # "start" /\ (RowId(i) \in existing[p] \/ NoText(i))) =>
            /\ calls[p][i] = 0
            /\ reply[p][i] = NoReply
            /\ tpc[p][i] # "call"
            /\ RowFilesUntouched(p, i)
            /\ tpc[p][i] = "done" =>
                   /\ outcome[p][i].status = "skipped"
                   /\ outcome[p][i].reason =
                          IF RowId(i) \in existing[p] THEN "already_saved" ELSE "empty_text"

\* A run that skips a persisted row without text as already_saved and another
\* row as empty_text.
C11_Witness ==
    \E p \in Providers : \E i, j \in Rows :
        /\ ppc[p] = "done"
        /\ RowId(i) \in existing[p] /\ NoText(i)
        /\ outcome[p][i].status = "skipped" /\ outcome[p][i].reason = "already_saved"
        /\ RowId(j) \notin existing[p] /\ NoText(j)
        /\ outcome[p][j].status = "skipped" /\ outcome[p][j].reason = "empty_text"

\* C12: client.process is called at most once per row and provider in a run; a
\* row whose call raised has an error outcome, its task has returned, and the
\* row cannot enter again.
C12_NoRetry ==
    \A p \in Providers : \A i \in Rows :
        /\ calls[p][i] <= 1
        /\ tpc[p][i] = "call" => calls[p][i] = 1
        /\ reply[p][i] # NoReply =>
               /\ calls[p][i] = 1
               /\ tpc[p][i] = "done"
               /\ ~ENABLED EnterRow(p, i)
        /\ reply[p][i] = Raise => outcome[p][i].status = "error"

C12_Witness ==
    \E p \in Providers : \E i \in Rows :
        /\ ppc[p] = "done"
        /\ reply[p][i] = Raise
        /\ outcome[p][i].status = "error"
        /\ calls[p][i] = 1

\* C20: while a provider's tasks run, the free permits and the permits held by
\* tasks whose call is in flight add up to BATCH_SIZE; a task that has left
\* process_single_row (with a skipped, success or error outcome, or with an
\* exception that escaped it) holds none, and once every task has left it all
\* BATCH_SIZE permits are free.
C20_PermitConservation ==
    \A p \in Providers :
        (ppc[p] \in {"gather", "done"} \/ (ppc[p] = "failed" /\ Gathered(p))) =>
            /\ sem[p] >= 0
            /\ sem[p] + Cardinality({i \in Rows : tpc[p][i] = "call"}) = BATCH_SIZE
            /\ \A i \in Rows :
                  outcome[p][i].status \in {"skipped", "success", "error", "raised"}
                      => tpc[p][i] = "done"
            /\ (\A i \in Rows : tpc[p][i] = "done") => sem[p] = BATCH_SIZE

\* A run over a table without the column text_content whose first row was
\* persisted earlier: that row is skipped, the exception of every other row
\* escapes its task, and every permit is back.
C20_Witness ==
    \E p \in Providers : \E i, j \in Rows :
        /\ ppc[p] = "done"
        /\ outcome[p][i].status = "skipped"
        /\ outcome[p][j].status = "raised"
        /\ sem[p] = BATCH_SIZE

\* C19: two distinct enabled providers (each with a client) have distinct
\* output directories; what a provider's directory gains during a run is that
\* provider's own outputs and summary, and a provider's already-persisted set
\* holds only record ids of files its own directory held when the run began.
C19_NamespaceIsolation ==
    \A p \in enabled :
        GetClient(clientType[p]) # None =>
            /\ \A q \in enabled \ {p} :
                  GetClient(clientType[q]) # None => OutputDir(p) # OutputDir(q)
            /\ \A f \in DOMAIN dir[OutputDir(p)] \ DOMAIN before[OutputDir(p)] :
                  \/ f = SummaryName(timestamp) /\ ppc[p] \in {"done", "failed"}
                  \/ \E i \in Rows : f = OutputOf(p, i) /\ reply[p][i].kind = "return"
            /\ ppc[p] # "start" =>
                   existing[p] \subseteq
                       {SplitFirst(f, "_") : f \in DOMAIN before[OutputDir(p)]}

\* The incident records of a document's value: a single object counts as one.
RecordsOf(v) == IF v[1] = "dict" THEN <<v>> ELSE v[2]

\* The entries of a record under a key, none if the key is left out.
EntriesOf(record, key) ==
    LET v == Get(record, KeyText(key), ListVal(<<>>)) IN v[2]

\* A text without the blank space at its two ends.
Trimmed(t) ==
    LET solid == {n \in 1..Len(t) : t[n] \notin Whitespace}
    IN  IF solid = {} THEN <<>>
        ELSE SubSeq(t, CHOOSE a \in solid : \A b \in solid : a <= b,
                       CHOOSE a \in solid : \A b \in solid : a >= b)

\* The n-th of the texts that the separators ";" cut a text into.
Piece(t, n) ==
    LET cuts == {0, Len(t) + 1} \cup {k \in 1..Len(t) : t[k] = ";"}
        from == CHOOSE a \in cuts : Cardinality({c \in cuts : c < a}) = n - 1
        to == CHOOSE a \in cuts : Cardinality({c \in cuts : c < a}) = n
    IN  SubSeq(t, from + 1, to - 1)

Pieces(t) == 1 + Cardinality({k \in 1..Len(t) : t[k] = ";"})

\* The numbers of the pieces of a type string that are not blank.
SolidPieces(t) == {n \in 1..Pieces(t) : Trimmed(Piece(t, n)) # <<>>}

\* The harm rows of frame fr that come from harm entry e of incident k: the
\* rows after those of the earlier incidents and entries.
HarmRowsBefore(records, k, e) ==
    LET count(h) == Cardinality(SolidPieces(Get(h, KeyText("type"), StrVal(<<>>))[2]))
        RECURSIVE sum(_, _)
        sum(kk, ee) ==
            IF kk = 0 THEN 0
            ELSE IF ee = 0 THEN sum(kk - 1, IF kk = 1 THEN 0 ELSE Len(EntriesOf(records[kk - 1], "harms")))
            ELSE count(EntriesOf(records[kk], "harms")[ee]) + sum(kk, ee - 1)
    IN  sum(k, e - 1)

\* All rows of all frames that carry an identity, with that identity.
AllUuids ==
    LET ids(rows, col) == [n \in 1..Len(rows) |-> rows[n][col]]
    IN  Flatten([n \in 1..Len(frames) |->
            ids(frames[n].incidents, "incident_uuid") \o ids(frames[n].plaintiffs, "plaintiff_uuid")
                \o ids(frames[n].defendants, "defendant_uuid") \o ids(frames[n].harms, "harm_uuid")])

\* C13: in the frames of a parsed document, every harm entry has given exactly
\* one row per piece of its type string that is not blank, in the order of the
\* pieces and after the rows of the earlier entries; the row holds the trimmed
\* piece, the identity of the entry's incident and the entry's two association
\* strings, and no two rows of any table share an identity.
C13_HarmFanOut ==
    /\ \A n \in 1..Len(frames) :
          LET fr == frames[n]
              records == RecordsOf(docs[fr.incidents[1].source_file[2]].value)
          IN  /\ Len(fr.incidents) = Len(records)
              /\ \A k \in 1..Len(records) : \A e \in 1..Len(EntriesOf(records[k], "harms")) :
                    LET h == EntriesOf(records[k], "harms")[e]
                        type == Get(h, KeyText("type"), StrVal(<<>>))[2]
                        solid == SolidPieces(type)
                        first == HarmRowsBefore(records, k, e)
                    IN  /\ first + Cardinality(solid) <= Len(fr.harms)
                        /\ \A m \in solid :
                              LET row == fr.harms[first + Cardinality({x \in solid : x <= m})]
                              IN  /\ row.harm_type = StrVal(Trimmed(Piece(type, m)))
                                  /\ row.incident_uuid = fr.incidents[k].incident_uuid
                                  /\ row.associated_plaintiff_ids =
                                         Get(h, KeyText("associated_plaintiff_ids"), StrVal(<<>>))
                                  /\ row.associated_defendant_ids =
                                         Get(h, KeyText("associated_defendant_ids"), StrVal(<<>>))
              /\ Len(fr.harms) =
                     HarmRowsBefore(records, Len(records),
                                    Len(EntriesOf(records[Len(records)], "harms")) + 1)
    /\ \A a, b \in 1..Len(AllUuids) : a # b => AllUuids[a] # AllUuids[b]

\* The spec's example: the type "A; B ;C" has given the rows A, B and C, with
\* the same association strings and three identities.
C13_Witness ==
    /\ Len(frames) = 1
    /\ Len(frames[1].harms) = 4
    /\ \A n \in 1..3 :
          /\ frames[1].harms[n].harm_type = StrVal(<<<<"A">>, <<"B">>, <<"C">>>>[n])
          /\ frames[1].harms[n].associated_plaintiff_ids = StrVal(Chars("p1;p2"))
          /\ frames[1].harms[n].incident_uuid = frames[1].incidents[1].incident_uuid
    /\ Cardinality({frames[1].harms[n].harm_uuid : n \in 1..3}) = 3

\* A value that is null: None, or the NaN pandas puts for a missing value.
IsNull(v) == v = None \/ v = NaN

\* C16: in every Incident, Plaintiff and Defendant row of a parsed document
\* every attribute column is there and holds a value that is not null.
C16_NeverNull ==
    \A n \in 1..Len(frames) :
        /\ \A k \in 1..Len(frames[n].incidents) : \A c \in IncidentAttrs :
              c \in DOMAIN frames[n].incidents[k] /\ ~IsNull(frames[n].incidents[k][c])
        /\ \A k \in 1..Len(frames[n].plaintiffs) : \A c \in PlaintiffAttrs :
              c \in DOMAIN frames[n].plaintiffs[k] /\ ~IsNull(frames[n].plaintiffs[k][c])
        /\ \A k \in 1..Len(frames[n].defendants) : \A c \in DefendantAttrs :
              c \in DOMAIN frames[n].defendants[k] /\ ~IsNull(frames[n].defendants[k][c])

\* The document of a file as it is without its wrapping.
Unwrapped(f) == DocText([docs[f] EXCEPT !.wrap = "plain"])

\* C17: a document wrapped in a code fence, bare or tagged json, parses to what
\* the same text parses to without the fence; the text of a single object
\* parses to the one-element list of that object, the text of a list to the
\* list; and load_folder records a parse failure for the wrapped document
\* exactly if the text without the fence does not parse.
C17_FenceRoundTrip ==
    \A f \in DOMAIN docs :
        /\ ParseExtraction(Folder[f]) = ParseExtraction(Unwrapped(f))
        /\ docs[f].kind = "json" =>
               ParseExtraction(Folder[f]) =
                   [ok |-> TRUE,
                    val |-> IF docs[f].value[1] = "dict" THEN ListVal(<<docs[f].value>>)
                            ELSE docs[f].value]
        /\ f \in loaded =>
               ((\E n \in 1..Len(failed) :
                     failed[n].file = f /\ failed[n].error = "JSONDecodeError")
                 <=> ~ParseExtraction(Unwrapped(f)).ok)

\* A single object in a fence tagged json, with blank space around the fence,
\* has been loaded as one incident.
C17_Witness ==
    \E f \in loaded :
        /\ docs[f].kind = "json" /\ docs[f].wrap = "spaced"
        /\ docs[f].value[1] = "dict"
        /\ Len(frames) = 1
        /\ Len(frames[1].incidents) = 1
        /\ frames[1].incidents[1].source_file = StrVal(f)

\* The rows of a joined table that come from harm row h.
RowsOfHarm(out, h) == SelectSeq(out, LAMBDA r : r.harm_uuid = h.harm_uuid)

\* What C14 asks of the rows that harm row h has in a joined table `out`: one
\* per piece of its association string, with the trimmed piece as local id and
\* the identity and attributes of the person of the same incident who has that
\* local id, nulls if nobody has.
ExplodedAndJoined(h, from, idcol, uuidcol, out, people, attrs, rename) ==
    LET ids == h[from][2]
        mine == RowsOfHarm(out, h)
    IN  /\ Len(mine) = Pieces(ids)
        /\ \A n \in 1..Pieces(ids) :
              LET token == StrVal(Trimmed(Piece(ids, n)))
                  same == {k \in 1..Len(people) :
                              /\ people[k].incident_uuid = h.incident_uuid
                              /\ people[k][idcol] = token}
              IN  /\ mine[n][idcol] = token
                  /\ same = {} =>
                         /\ IsNull(mine[n][uuidcol])
                         /\ \A c \in attrs \ {idcol} : IsNull(mine[n][Renamed(rename, c)])
                  /\ same # {} =>
                         \E k \in same :
                             /\ mine[n][uuidcol] = people[k][uuidcol]
                             /\ \A c \in attrs \ {idcol} :
                                   mine[n][Renamed(rename, c)] = people[k][c]

\* Local ids are unique within an incident.
UniqueLocalIds ==
    /\ \A a, b \in 1..Len(tables.plaintiffs) :
          (/\ a # b
           /\ tables.plaintiffs[a].incident_uuid = tables.plaintiffs[b].incident_uuid)
              => tables.plaintiffs[a].plaintiff_id # tables.plaintiffs[b].plaintiff_id
    /\ \A a, b \in 1..Len(tables.defendants) :
          (/\ a # b
           /\ tables.defendants[a].incident_uuid = tables.defendants[b].incident_uuid)
              => tables.defendants[a].defendant_id # tables.defendants[b].defendant_id

\* The joins have rows as C14 describes them.
JoinsAsDescribed ==
    \A n \in 1..Len(tables.harms) :
        /\ ExplodedAndJoined(tables.harms[n], "associated_plaintiff_ids", "plaintiff_id",
                             "plaintiff_uuid", joined.harms_with_plaintiffs,
                             tables.plaintiffs, PlaintiffAttrs, PlaintiffRename)
        /\ ExplodedAndJoined(tables.harms[n], "associated_defendant_ids", "defendant_id",
                             "defendant_uuid", joined.harms_with_defendants,
                             tables.defendants, DefendantAttrs, DefendantRename)

\* C14: when load_folder has returned Harm rows and local ids are unique within
\* an incident, the script does not end before the joins, and the two joined
\* tables hold, for every Harm row, one row per piece of its association
\* string, with the attributes of the person of the same incident that the
\* piece names and with nulls where it names nobody.
C14_ExplosionJoin ==
    (tables.harms # <<>> /\ UniqueLocalIds) =>
        /\ ppos # "crashed"
        /\ ppos = "joined" => JoinsAsDescribed

\* C15: every row of a joined table that has a plaintiff or a defendant
\* attached has the identity, the local id and the attributes of a Plaintiff
\* or Defendant row with the Harm row's own incident_uuid.
C15_JoinWithinIncident ==
    ppos = "joined" =>
        /\ \A n \in 1..Len(joined.harms_with_plaintiffs) :
              LET r == joined.harms_with_plaintiffs[n]
              IN  (\E c \in {"plaintiff_uuid", "plaintiff_name"} : ~IsNull(r[c])) =>
                      \E k \in 1..Len(tables.plaintiffs) :
                          /\ tables.plaintiffs[k].incident_uuid = r.incident_uuid
                          /\ tables.plaintiffs[k].plaintiff_uuid = r.plaintiff_uuid
                          /\ tables.plaintiffs[k].plaintiff_id = r.plaintiff_id
                          /\ tables.plaintiffs[k].name = r.plaintiff_name
        /\ \A n \in 1..Len(joined.harms_with_defendants) :
              LET r == joined.harms_with_defendants[n]
              IN  (\E c \in {"defendant_uuid", "defendant_name"} : ~IsNull(r[c])) =>
                      \E k \in 1..Len(tables.defendants) :
                          /\ tables.defendants[k].incident_uuid = r.incident_uuid
                          /\ tables.defendants[k].defendant_uuid = r.defendant_uuid
                          /\ tables.defendants[k].defendant_id = r.defendant_id
                          /\ tables.defendants[k].name = r.defendant_name

\* Two incidents use the local id p1 for two people, and each one's harm has
\* got its own; a harm names p2, which only another incident has, and has got
\* nobody.
C15_Witness ==
    /\ ppos = "joined"
    /\ \E a, b \in 1..Len(joined.harms_with_plaintiffs) :
          LET ra == joined.harms_with_plaintiffs[a]
              rb == joined.harms_with_plaintiffs[b]
          IN  /\ ra.plaintiff_id = StrVal(Chars("p1")) /\ rb.plaintiff_id = StrVal(Chars("p1"))
              /\ ra.incident_uuid # rb.incident_uuid
              /\ ~IsNull(ra.plaintiff_name) /\ ~IsNull(rb.plaintiff_name)
              /\ ra.plaintiff_name # rb.plaintiff_name
    /\ \E a \in 1..Len(joined.harms_with_plaintiffs) :
          LET ra == joined.harms_with_plaintiffs[a]
          IN  /\ ra.plaintiff_id = StrVal(Chars("p2"))
              /\ IsNull(ra.plaintiff_uuid)
              /\ \E k \in 1..Len(tables.plaintiffs) :
                    tables.plaintiffs[k].plaintiff_id = StrVal(Chars("p2"))

\* The documents that fail to parse: the cut-off ones, the empty one, and the
\* ones with a harm entry whose type is null.
FailingDoc(doc) ==
    \/ doc.kind # "json"
    \/ \E k \in 1..Len(RecordsOf(doc.value)) :
          \E e \in 1..Len(EntriesOf(RecordsOf(doc.value)[k], "harms")) :
              Get(EntriesOf(RecordsOf(doc.value)[k], "harms")[e], KeyText("type"),
                  StrVal(<<>>)) = None

\* C18: load_folder does not end in an exception, whichever documents fail to
\* parse, and once its loop is through the failure list holds one entry for
\* every failing document and none for any other.
C18_NeverAborts ==
    /\ ~(ppos = "crashed" /\ perr = "ValueError")
    /\ loaded = TxtFiles =>
           \A f \in TxtFiles :
               Cardinality({n \in 1..Len(failed) : failed[n].file = f})
                   = IF FailingDoc(docs[f]) THEN 1 ELSE 0

\* The script holds the tables as load_folder returned them.
Returned == ppos = "loaded"

\* Every child row of the four tables t has one Incident row, of its own file,
\* and no two Incident rows have the same identity.
Referential(t) ==
    /\ \A a, b \in 1..Len(t.incidents) :
          t.incidents[a].incident_uuid = t.incidents[b].incident_uuid => a = b
    /\ \A c \in {"plaintiffs", "defendants", "harms"} :
          \A n \in 1..Len(t[c]) :
              LET parents == {k \in 1..Len(t.incidents) :
                                 t.incidents[k].incident_uuid = t[c][n].incident_uuid}
              IN  /\ Cardinality(parents) = 1
                  /\ \A k \in parents :
                        /\ t.incidents[k].file_id = t[c][n].file_id
                        /\ t.incidents[k].source_file = t[c][n].source_file

\* C21: in the tables extraction_to_tables returns for a file and in the
\* tables load_folder returns, every Plaintiff, Defendant and Harm row has the
\* incident_uuid of exactly one Incident row, which has the row's file_id and
\* source_file, and no two Incident rows have the same incident_uuid.
C21_ReferentialIntegrity ==
    /\ \A n \in 1..Len(frames) : Referential(frames[n])
    /\ Returned => Referential(tables)

\* load_folder has returned the rows of two files, three incidents or more
\* among them, with plaintiffs and harms of both files.
C21_Witness ==
    /\ ppos = "loaded"
    /\ Len(frames) = 2
    /\ Len(tables.incidents) >= 3
    /\ \A c \in {"plaintiffs", "harms"} :
          \E a, b \in 1..Len(tables[c]) : tables[c][a].source_file # tables[c][b].source_file

\* A table as load_folder returned it: the frames of the parsed files, one
\* after the other.
Combined(t) == Flatten([n \in 1..Len(frames) |-> frames[n][t]])

\* C22: attach_ids keeps the rows of each of the four tables, whatever the
\* identity mapping holds: the output has the input's rows, each once and
\* unchanged in its own columns, and a row whose file_id the mapping does not
\* have has a null document_id and case_id.
C22_AttachPreservesRows ==
    ppos \in {"attached", "joined"} =>
        \A t \in DOMAIN tables :
            /\ Len(tables[t]) = Len(Combined(t))
            /\ \A n \in 1..Len(tables[t]) :
                  n <= Len(Combined(t)) =>
                      /\ [c \in DOMAIN Combined(t)[n] |-> tables[t][n][c]] = Combined(t)[n]
                      /\ (\A k \in 1..Len(filtered) :
                              filtered[k].file_id # tables[t][n].file_id)
                            => IsNull(tables[t][n].document_id) /\ IsNull(tables[t][n].case_id)

\* Document f has rows in the lists load_folder builds, or in the tables the
\* script holds.
HasRows(f) ==
    \E t \in DOMAIN tables :
        \/ \E n \in 1..Len(Combined(t)) : Combined(t)[n].source_file = StrVal(f)
        \/ \E n \in 1..Len(tables[t]) : tables[t][n].source_file = StrVal(f)

\* The entries document f has in the failure list.
FailuresOf(f) == {n \in 1..Len(failed) : failed[n].file = f}

\* C24: a document the loop of load_folder has been through has rows in the
\* combined tables or one entry in the failure list, never both; it has
\* neither only if it parsed to an empty list of incidents, which has no row
\* to give; a document that fails, partway through as well, has no row in any
\* of the four tables; a document the loop has not been through has neither.
C24_Atomic ==
    \A f \in TxtFiles :
        /\ Cardinality(FailuresOf(f)) <= 1
        /\ ~(HasRows(f) /\ FailuresOf(f) # {})
        /\ f \notin loaded => ~HasRows(f) /\ FailuresOf(f) = {}
        /\ f \in loaded =>
              /\ (~HasRows(f) /\ FailuresOf(f) = {}) =>
                     docs[f].kind = "json" /\ RecordsOf(docs[f].value) = <<>>
              /\ FailingDoc(docs[f]) => ~HasRows(f) /\ FailuresOf(f) # {}

\* C24 as stated: every document the loop has been through has rows or a
\* failure entry, never both and never neither.
C24_Original ==
    \A f \in loaded :
        /\ HasRows(f) # (FailuresOf(f) # {})
        /\ FailingDoc(docs[f]) => ~HasRows(f)

\* load_folder has returned; one document failed at its second incident, after
\* a first one with plaintiffs, and is in the failure list without any row;
\* the other has its rows in the tables.
C24_Witness ==
    /\ ppos = "loaded"
    /\ \E f, g \in loaded :
          /\ docs[f].kind = "json"
          /\ Len(RecordsOf(docs[f].value)) = 2
          /\ EntriesOf(RecordsOf(docs[f].value)[1], "plaintiffs") # <<>>
          /\ FailingDoc(docs[f])
          /\ FailuresOf(f) # {}
          /\ ~HasRows(f)
          /\ HasRows(g)
          /\ FailuresOf(g) = {}

\* C23: a summary that process_with_llm has written holds one result per input
\* row, in the order of the rows, each with the status success, error or
\* skipped, a result that names a record naming its row's; the three counts
\* add up to the number of rows, also where a task raised before its try
\* block.
C23_OneOutcomePerRow ==
    \A p \in Providers :
        ppc[p] = "done" =>
            /\ Len(summary[p].results) = Cardinality(Rows)
            /\ \A i \in 1..Len(summary[p].results) :
                  /\ summary[p].results[i].status \in {"success", "error", "skipped"}
                  /\ "file_id" \in DOMAIN summary[p].results[i]
                        => summary[p].results[i].file_id = RowId(df[i])
                  /\ (outcome[p][df[i]].status = "raised")
                         = ("file_id" \notin DOMAIN summary[p].results[i])
            /\ summary[p].success_count + summary[p].error_count + summary[p].skipped_count
                  = Cardinality(Rows)

\* A summary is written for a table without text_content: the row whose output
\* an earlier run left is skipped, the tasks of the other rows raised KeyError
\* and are error results.
C23_Witness ==
    \E p \in Providers :
        /\ ppc[p] = "done"
        /\ \E i, j \in Rows :
              /\ outcome[p][i].status = "skipped"
              /\ outcome[p][j].status = "raised"
              /\ summary[p].results[j].status = "error"
        /\ summary[p].skipped_count = 1
        /\ summary[p].error_count = Cardinality(Rows) - 1

====
